---- MODULE Spec2Model ----
(***************************************************************************)
(* Screenshot annotation canvas of tipsxBase/clipboard: the drawing        *)
(* surface controller (useFabricCanvas), the shape handlers it dispatches  *)
(* to, and the capture window that creates and disposes the surface.       *)
(*                                                                         *)
(* Fabric objects are references in the program: they live in `heap`, and  *)
(* the canvas' object list, the active object, the transient object of a   *)
(* drawing gesture and the control-point table all hold ids into it.       *)
(***************************************************************************)
EXTENDS Integers, Sequences, FiniteSets, TLC

\* ------------------------------------------------------------------ bounds

\* Persistent shapes a session may hold before drawing is no longer offered.
MaxObjects == 2
\* History entries after which no further history-pushing input is offered.
MaxHistory == 4
\* Pointer-move events delivered within one gesture.
MaxMoves == 2
\* Snapshot loads / surface initialisations that may be pending at once.
MaxPending == 2
\* Selections the user starts while the capture window is open.
MaxSelections == 1
\* Inputs and completions of asynchronous work explored from the opening
\* of the window, and from the moment a first shape has been drawn.
MaxSteps == 12
MaxDrawnSteps == 8
\* Inputs explored from a selected rectangle whose handles are dragged.
MaxRectSteps == 7
MaxResizeSteps == 5
MaxSessionSteps == 7
MaxConfirms == 1
\* Inputs explored from a first shape when its style can be changed too.
MaxStyleSteps == 5
\* Numbers: the bits of the significand a number keeps (53 in the program),
\* and the bits after the binary point the inputs of a move may use.
SignificandBits == 8
FracBits == 4

\* ------------------------------------------------------------- input sets

\* Pointer-down positions on the editing surface (scene coordinates).
StartPts == { <<1, 1>> }
\* Pointer-move positions: one closer than 2 px in x to the start, one far
\* outside the surface (clamped by handleMouseMove) and valid for every tool.
MovePts == { <<2, 6>>, <<90, 70>> }
\* Displacement of one step of a drag of a shape or of a control point.
MoveDeltas == { <<2, 3>> }
\* Displacements of a handle of the rectangle (1,1)-(40,30): within it,
\* past the opposite corner in both axes or in one, and back.
FlipDeltas == { <<2, 3>>, <<50, 40>>, <<-50, -40>>, <<50, 0>>, <<0, -40>> }
\* Contents typed into a text shape: empty, whitespace only, visible.
Texts == { "", " ", "a" }

Tools == { "rect", "ellipse", "arrow", "pen", "text" }
NoTool == "none"

\* --------------------------------------------------------------- numbers

Abs(n) == IF n < 0 THEN -n ELSE n
Min(a, b) == IF a <= b THEN a ELSE b
Max(a, b) == IF a >= b THEN a ELSE b

RECURSIVE Pow2(_)
Pow2(k) == IF k = 0 THEN 1 ELSE 2 * Pow2(k - 1)

\* The spacing of the numbers that can be stored around n >= 0: 1 while n
\* fits the significand, doubling with every bit beyond it.
RECURSIVE Spacing(_, _)
Spacing(n, q) ==
    IF n < q * Pow2(SignificandBits) THEN q ELSE Spacing(n, 2 * q)

\* The stored number nearest to n >= 0, ties to the even significand.
Nearest(n, q) ==
    LET r == n % q
        low == n - r
    IN IF 2 * r < q THEN low
       ELSE IF 2 * r > q THEN low + q
       ELSE IF (low \div q) % 2 = 0 THEN low ELSE low + q

\* a + b on the program's numbers: the sum, rounded to what the significand
\* can hold. Numbers are counted in the smallest fraction in use; whole
\* pixels below 2^SignificandBits, as on the surface, add exactly.
Plus(a, b) ==
    IF a + b >= 0 THEN Nearest(a + b, Spacing(a + b, 1))
    ELSE -Nearest(-(a + b), Spacing(-(a + b), 1))

RECURSIVE SeqMin(_, _)
SeqMin(s, k) ==
    IF Len(s) = 0 THEN 0
    ELSE IF Len(s) = 1 THEN s[1][k]
    ELSE Min(s[1][k], SeqMin(Tail(s), k))

\* ------------------------------------------------------------ shape data

\* ShapeData (shapes/index.ts): rect, ellipse and arrow keep the two
\* endpoints (x1,y1),(x2,y2) as pts[1], pts[2]; pen keeps its points; text
\* keeps its anchor, its content and its font size.
NoData == [type |-> "none", pts |-> <<>>, text |-> "", fontSize |-> 0]
Rejected == [type |-> "rejected", pts |-> <<>>, text |-> "", fontSize |-> 0]

Shape2(t, p, q) == [type |-> t, pts |-> <<p, q>>, text |-> "", fontSize |-> 0]

\* A createData for the rect tool that has no minimum size.
RectCreateData_NoMinimum(start, current) == Shape2("rect", start, current)

\* RectHandler.createData: rejected when either extent is below 2.
RectCreateData(start, current) ==
    LET width == Abs(current[1] - start[1])
        height == Abs(current[2] - start[2])
    IN IF width < 2 \/ height < 2 THEN Rejected
       ELSE Shape2("rect", start, current)

\* An ellipse createData with the minimum of the rect tool.
EllipseCreateData_ExtentBelowTwo(start, current) ==
    IF Abs(current[1] - start[1]) < 2 \/ Abs(current[2] - start[2]) < 2
    THEN Rejected
    ELSE Shape2("ellipse", start, current)

\* EllipseHandler.createData: the radii are half the extents, and a radius
\* below 2 rejects (2 * rx < 4 states rx < 2 over the integers).
EllipseCreateData(start, current) ==
    LET rx2 == Abs(current[1] - start[1])
        ry2 == Abs(current[2] - start[2])
    IN IF rx2 < 4 \/ ry2 < 4 THEN Rejected
       ELSE Shape2("ellipse", start, current)

\* ArrowHandler.createData: rejected when both extents are below 5.
ArrowCreateData(start, current) ==
    LET dx == Abs(current[1] - start[1])
        dy == Abs(current[2] - start[2])
    IN IF dx < 5 /\ dy < 5 THEN Rejected
       ELSE Shape2("arrow", start, current)

\* PenHandler.createData: the accumulated points, rejected below 2 points.
PenCreateData(start, current, points) ==
    IF Len(points) < 2 THEN Rejected
    ELSE [type |-> "pen", pts |-> points, text |-> "", fontSize |-> 0]

\* TextHandler.createData: never rejects; empty content at the start point.
TextCreateData(start, current) ==
    [type |-> "text", pts |-> <<start>>, text |-> "", fontSize |-> 20]

\* ShapeRegistry.getHandler(tool).createData(start, current, points)
CreateData(tool, start, current, points) ==
    CASE tool = "rect" -> RectCreateData(start, current)
      [] tool = "ellipse" -> EllipseCreateData(start, current)
      [] tool = "arrow" -> ArrowCreateData(start, current)
      [] tool = "pen" -> PenCreateData(start, current, points)
      [] tool = "text" -> TextCreateData(start, current)
      [] OTHER -> Rejected

\* handler.move(data, dx, dy): every handler translates all its points.
\* A move that keeps every coordinate on the surface (not the program's).
MoveData_KeptOnSurface(data, dx, dy) ==
    [data EXCEPT !.pts = [i \in 1..Len(data.pts) |->
                             <<Max(0, Plus(data.pts[i][1], dx)),
                               Max(0, Plus(data.pts[i][2], dy))>>]]

\* A move that hands back a freehand stroke whatever it was given (not the
\* program's).
MoveData_Retagged(data, dx, dy) ==
    [data EXCEPT !.type = "pen",
                 !.pts = [i \in 1..Len(data.pts) |->
                             <<Plus(data.pts[i][1], dx),
                               Plus(data.pts[i][2], dy)>>]]

MoveData(data, dx, dy) ==
    [data EXCEPT !.pts = [i \in 1..Len(data.pts) |->
                             <<Plus(data.pts[i][1], dx),
                               Plus(data.pts[i][2], dy)>>]]

\* handler.getControlPoints(): the ids of the handles of a shape type.
ControlPointIds(type) ==
    CASE type \in {"rect", "ellipse"} -> <<"tl", "tr", "bl", "br">>
      [] type \in {"arrow", "pen"} -> <<"start", "end">>
      [] OTHER -> <<>>

\* buildRectPathData(x1, y1, x2, y2): the sides of the path drawn for a
\* rect, M left top L right top L right bottom L left bottom Z.
BuildRectPathData(data) ==
    [left |-> Min(data.pts[1][1], data.pts[2][1]),
     top |-> Min(data.pts[1][2], data.pts[2][2]),
     right |-> Max(data.pts[1][1], data.pts[2][1]),
     bottom |-> Max(data.pts[1][2], data.pts[2][2])]

\* A getPosition that takes the rect's corners from (x1, y1) and (x2, y2)
\* as they are stored.
GetPosition_AsStored(data, pid) ==
    LET p == data.pts
    IN CASE data.type \in {"rect", "ellipse"} ->
              <<IF pid \in {"tl", "bl"} THEN p[1][1] ELSE p[2][1],
                IF pid \in {"tl", "tr"} THEN p[1][2] ELSE p[2][2]>>
         [] data.type = "arrow" -> IF pid = "start" THEN p[1] ELSE p[2]
         [] data.type = "pen" ->
              IF Len(p) = 0 THEN <<0, 0>>
              ELSE IF pid = "start" THEN p[1] ELSE p[Len(p)]
         [] OTHER -> <<0, 0>>

\* ControlPointDef.getPosition of handle `pid`.
GetPosition(data, pid) ==
    LET p == data.pts
    IN CASE data.type \in {"rect", "ellipse"} ->
              <<IF pid \in {"tl", "bl"} THEN Min(p[1][1], p[2][1])
                                        ELSE Max(p[1][1], p[2][1]),
                IF pid \in {"tl", "tr"} THEN Min(p[1][2], p[2][2])
                                        ELSE Max(p[1][2], p[2][2])>>
         [] data.type = "arrow" -> IF pid = "start" THEN p[1] ELSE p[2]
         [] data.type = "pen" ->
              IF Len(p) = 0 THEN <<0, 0>>
              ELSE IF pid = "start" THEN p[1] ELSE p[Len(p)]
         [] OTHER -> <<0, 0>>

\* ControlPointDef.onDrag of a rect/ellipse corner: the dragged corner's x
\* goes to whichever of x1/x2 is currently on that side, likewise for y.
CornerOnDrag(data, pid, newPos) ==
    LET p == data.pts
        isX1Left == p[1][1] <= p[2][1]
        isY1Top == p[1][2] <= p[2][2]
        left == pid \in {"tl", "bl"}
        top == pid \in {"tl", "tr"}
        setX1 == IF left THEN isX1Left ELSE ~isX1Left
        setY1 == IF top THEN isY1Top ELSE ~isY1Top
    IN [data EXCEPT !.pts =
          << <<IF setX1 THEN newPos[1] ELSE p[1][1],
               IF setY1 THEN newPos[2] ELSE p[1][2]>>,
             <<IF setX1 THEN p[2][1] ELSE newPos[1],
               IF setY1 THEN p[2][2] ELSE newPos[2]>> >>]

\* ControlPointDef.onDrag for every shape type.
OnDrag(data, pid, newPos) ==
    CASE data.type \in {"rect", "ellipse"} -> CornerOnDrag(data, pid, newPos)
      [] data.type = "arrow" ->
           IF pid = "start" THEN [data EXCEPT !.pts[1] = newPos]
                            ELSE [data EXCEPT !.pts[2] = newPos]
      [] data.type = "pen" ->
           IF Len(data.pts) = 0 THEN data
           ELSE LET anchor == GetPosition(data, pid)
                IN MoveData(data, newPos[1] - anchor[1], newPos[2] - anchor[2])
      [] OTHER -> data

\* ------------------------------------------------------------------ state

VARIABLES
    \* --- Fabric canvas owned by useFabricCanvas
    hasCanvas,        \* fabricCanvas.value is not null
    canvasW, canvasH, \* canvas.width / canvas.height
    heap,             \* id -> Fabric object (the objects the program holds)
    objects,          \* canvas.getObjects(): ids, bottom to top
    activeObject,     \* canvas.getActiveObject(): id, 0 for none
    transform,        \* Fabric's current drag transform: target id, moved
    \* --- useFabricCanvas
    activeTool, isDrawing, drawStartPoint, currentObject, penPoints,
    history, historyIndex, isLoadingHistory, lastObjectPosition,
    controlPoints,
    drawingConfig,    \* strokeColor / strokeWidth new shapes are made with
    \* --- asynchronous work in flight
    loads,            \* canvas.loadFromJSON promises of undo / redo
    inits,            \* setBackgroundImage promises of (re)initialisations
    \* --- the capture window (Screenshot component)
    selection, isSelecting, isDragging, isResizing, resizeHandle, startPos,
    dragStartPos, dragStartSelection,
    isReady,          \* the capture is shown; false once close() has run
    mask,             \* the selection renderMask last drew with its border
    confirms,         \* confirmSelection calls waiting for the host
    \* --- the pointer, and what the model remembers of what happened
    pointerDown,      \* a mouse button is held
    nMoves,           \* pointer moves of the running gesture
    nSelections,      \* selections started so far
    stepsLeft,        \* inputs and completions still to be explored
    clicks,           \* presses and releases in place, up to a double click
    screens,          \* the capture windows of several screens side by side
    mount,            \* capture data on its way to the window at mount
    clip,             \* the clipboard list window and the host's history
    gesture,          \* the running gesture: list before it, last pointer
    lastOp,           \* the kind of the last completed operation
    calc,             \* a move applied to shape data on its own
    cutOff,           \* entries the last history push cut off the log
    probe             \* an undo followed by a redo: the list before the undo

fvars == <<hasCanvas, canvasW, canvasH, heap, objects, activeObject, transform,
           activeTool, isDrawing, drawStartPoint, currentObject, penPoints,
           history, historyIndex, isLoadingHistory, lastObjectPosition,
           controlPoints, loads, drawingConfig>>

NoTransform == [target |-> 0, moved |-> FALSE, left |-> 0, top |-> 0]
NoControlPoints == [shape |-> 0, points |-> <<>>]
NoPosition == [set |-> FALSE, left |-> 0, top |-> 0]

\* The state of the surface as one record, so that a handler's calls compose.
St == [hasCanvas |-> hasCanvas, canvasW |-> canvasW, canvasH |-> canvasH,
       heap |-> heap, objects |-> objects, activeObject |-> activeObject,
       transform |-> transform, activeTool |-> activeTool,
       isDrawing |-> isDrawing, drawStartPoint |-> drawStartPoint,
       currentObject |-> currentObject, penPoints |-> penPoints,
       history |-> history, historyIndex |-> historyIndex,
       isLoadingHistory |-> isLoadingHistory,
       lastObjectPosition |-> lastObjectPosition,
       controlPoints |-> controlPoints, loads |-> loads,
       drawingConfig |-> drawingConfig]

\* ---------------------------------------------------------- Fabric objects

\* defaultDrawingConfig
DefaultDrawingConfig == [strokeColor |-> "#ff0000", strokeWidth |-> 3]

\* The stroke, stroke width, fill and font size createPath gives the object
\* of a shape: an outline for rect / ellipse / pen, a filled outline one
\* pixel wide for an arrow, a fill and the data's font size for a text.
\* pathWidth is the width buildArrowPathData made the arrow's polygon for
\* (0 for the objects that are no arrows).
PathStyle(type, fontSize, config) ==
    CASE type = "arrow" ->
           [stroke |-> config.strokeColor, strokeWidth |-> 1,
            fill |-> config.strokeColor, fontSize |-> 0,
            pathWidth |-> config.strokeWidth]
      [] type = "text" ->
           [stroke |-> "", strokeWidth |-> 1,
            fill |-> config.strokeColor, fontSize |-> fontSize,
            pathWidth |-> 0]
      [] OTHER ->
           [stroke |-> config.strokeColor, strokeWidth |-> config.strokeWidth,
            fill |-> "transparent", fontSize |-> 0, pathWidth |-> 0]

\* The style of the circle createControlPoints makes.
ControlStyle ==
    [stroke |-> "#0066ff", strokeWidth |-> 2, fill |-> "#ffffff",
     fontSize |-> 0, pathWidth |-> 0]

\* handler.createPath(data, config): a Path for rect / ellipse / arrow / pen,
\* an IText for text; left/top is where Fabric places the new object.
\* madeAs is an observation, not a property of the program's object: the
\* type tag the shape was created with. So is widthAsked: the stroke width
\* an arrow was drawn or last restyled with (0 for the other objects).
CreatePath(data, config) ==
    [kind |-> IF data.type = "text" THEN "i-text" ELSE "path",
     shapeData |-> data, madeAs |-> data.type,
     widthAsked |-> IF data.type = "arrow" THEN config.strokeWidth ELSE 0,
     isControlPoint |-> FALSE, pointId |-> "",
     left |-> SeqMin(data.pts, 1), top |-> SeqMin(data.pts, 2),
     style |-> PathStyle(data.type, data.fontSize, config),
     evented |-> TRUE, dashed |-> FALSE,
     text |-> data.text, isEditing |-> FALSE, textBeforeEdit |-> "",
     enlivened |-> FALSE]

\* new Circle({...}) of createControlPoints, tagged isControlPoint / pointId.
ControlCircle(pid, pos) ==
    [kind |-> "circle", shapeData |-> NoData, madeAs |-> "none",
     widthAsked |-> 0,
     isControlPoint |-> TRUE, pointId |-> pid,
     left |-> pos[1], top |-> pos[2], style |-> ControlStyle,
     evented |-> TRUE, dashed |-> FALSE,
     text |-> "", isEditing |-> FALSE, textBeforeEdit |-> "",
     enlivened |-> FALSE]

IsText(o) == o.kind = "i-text"

\* String.prototype.trim() === "" over the contents the model types.
TrimIsEmpty(t) == t \in {"", " "}

\* The smallest id no held object uses.
FreshId(h) ==
    CHOOSE n \in 1..(Cardinality(DOMAIN h) + 1) :
        n \notin DOMAIN h /\ \A m \in 1..(n - 1) : m \in DOMAIN h

Without(seq, id) == SelectSeq(seq, LAMBDA x : x # id)
SeqSet(seq) == { seq[i] : i \in 1..Len(seq) }

\* canvas.toObject(["shapeData", "isControlPoint"]) of one object: the
\* properties Fabric serialises (not selectable / evented / isEditing).
ToObject(o) ==
    [kind |-> o.kind, shapeData |-> o.shapeData, madeAs |-> o.madeAs,
     widthAsked |-> o.widthAsked,
     isControlPoint |-> o.isControlPoint,
     left |-> o.left, top |-> o.top, style |-> o.style,
     dashed |-> o.dashed, text |-> o.text]

\* The object enlivened from a serialised one by loadFromJSON.
FromObject(j) ==
    [kind |-> j.kind, shapeData |-> j.shapeData, madeAs |-> j.madeAs,
     widthAsked |-> j.widthAsked,
     isControlPoint |-> j.isControlPoint, pointId |-> "",
     left |-> j.left, top |-> j.top, style |-> j.style,
     evented |-> TRUE, dashed |-> j.dashed,
     text |-> j.text, isEditing |-> FALSE, textBeforeEdit |-> "",
     enlivened |-> TRUE]

\* The serialised objects of the canvas, in stacking order.
AllObjects(s) == [i \in 1..Len(s.objects) |-> ToObject(s.heap[s.objects[i]])]

\* The persistent (non-control-point) object list of the surface.
PersistentOf(s) == SelectSeq(AllObjects(s), LAMBDA j : ~j.isControlPoint)

\* Which shapes that list holds, whatever their selection styling.
ShapeListOf(s) ==
    [i \in 1..Len(PersistentOf(s)) |->
        [kind |-> PersistentOf(s)[i].kind,
         type |-> PersistentOf(s)[i].shapeData.type,
         pts |-> PersistentOf(s)[i].shapeData.pts]]

\* ------------------------------------------------- useFabricCanvas helpers

\* saveHistory: truncate the entries after the cursor, push the snapshot of
\* the canvas without its control points, move the cursor to the end.
Truncated(s) ==
    IF s.historyIndex < Len(s.history) - 1
    THEN SubSeq(s.history, 1, s.historyIndex + 1)
    ELSE s.history

\* A saveHistory that pushes nothing.
SaveHistory_NoPush(s) == s

\* A saveHistory that keeps the entries after the cursor.
SaveHistory_NoTruncate(s) ==
    IF ~s.hasCanvas THEN s
    ELSE [s EXCEPT !.history = Append(s.history, PersistentOf(s)),
                   !.historyIndex = Len(s.history)]

\* A saveHistory that snapshots the control points too.
SaveHistory_WithControls(s) ==
    IF ~s.hasCanvas THEN s
    ELSE [s EXCEPT !.history = Append(Truncated(s), AllObjects(s)),
                   !.historyIndex = Len(Truncated(s))]

SaveHistory(s) ==
    IF ~s.hasCanvas THEN s
    ELSE [s EXCEPT !.history = Append(Truncated(s), PersistentOf(s)),
                   !.historyIndex = Len(Truncated(s))]

\* updateAllControlPoints(shape): reposition the control points when they
\* belong to `shape`.
UpdateAllControlPoints(s, shape) ==
    IF s.controlPoints.shape = 0 \/ s.controlPoints.shape # shape
       \/ s.heap[shape].shapeData.type = "none"
    THEN s
    ELSE LET data == s.heap[shape].shapeData
             pts == SeqSet(s.controlPoints.points)
         IN [s EXCEPT !.heap = [i \in DOMAIN s.heap |->
                IF i \in pts /\ s.heap[i].pointId
                                  \in SeqSet(ControlPointIds(data.type))
                THEN [s.heap[i] EXCEPT
                        !.left = GetPosition(data, s.heap[i].pointId)[1],
                        !.top = GetPosition(data, s.heap[i].pointId)[2]]
                ELSE s.heap[i]]]

\* The end of the object:modified listener: push history unless a snapshot
\* is being loaded.
PushUnlessLoading(s) == IF ~s.isLoadingHistory THEN SaveHistory(s) ELSE s

\* canvas.on("object:modified"): sync a text's shapeData, then push history
\* unless a snapshot is being loaded.
ObjectModified(s, id) ==
    PushUnlessLoading(
      IF IsText(s.heap[id]) /\ s.heap[id].shapeData.type = "text"
      THEN UpdateAllControlPoints(
             [s EXCEPT !.heap[id].shapeData =
                [s.heap[id].shapeData EXCEPT
                   !.text = s.heap[id].text,
                   !.pts = << <<s.heap[id].left, s.heap[id].top>> >>]],
             id)
      ELSE s)

\* IText.exitEditing: leaves edit mode and, when the text changed, fires
\* object:modified on the canvas the text is on.
ExitEditing(s, id) ==
    IF ~s.heap[id].isEditing THEN s
    ELSE IF s.heap[id].textBeforeEdit # s.heap[id].text
            /\ id \in SeqSet(s.objects)
    THEN ObjectModified([s EXCEPT !.heap[id].isEditing = FALSE], id)
    ELSE [s EXCEPT !.heap[id].isEditing = FALSE]

\* IText.enterEditing
EnterEditingObj(s, id) ==
    IF s.heap[id].isEditing THEN s
    ELSE [s EXCEPT !.heap[id].isEditing = TRUE,
                   !.heap[id].textBeforeEdit = s.heap[id].text]

\* Fabric's _finalizeCurrentTransform: object:modified when the drag moved.
FinalizeTransform(s) ==
    IF s.transform.target = 0 THEN s
    ELSE IF s.transform.moved /\ s.transform.target \in SeqSet(s.objects)
    THEN ObjectModified([s EXCEPT !.transform = NoTransform],
                        s.transform.target)
    ELSE [s EXCEPT !.transform = NoTransform]

\* The running transform ends when it is the one of object `id`.
EndTransformOf(s, id) ==
    IF s.transform.target = id THEN FinalizeTransform(s) ELSE s

ClearActive(s) == [s EXCEPT !.activeObject = 0]

\* Fabric's _discardActiveObject: onDeselect (a text leaves edit mode), the
\* active object's running transform ends, no object is active.
Deactivate(s) ==
    IF s.activeObject = 0 THEN s
    ELSE ClearActive(EndTransformOf(ExitEditing(s, s.activeObject),
                                    s.activeObject))

\* The end of removeControlPoints: the dash of the shape the control points
\* belong to is cleared and the table is reset.
ClearTable(s, shape) ==
    [s EXCEPT !.heap = IF shape # 0
                       THEN [s.heap EXCEPT ![shape].dashed = FALSE]
                       ELSE s.heap,
              !.controlPoints = NoControlPoints]

\* removeControlPoints: remove every control point from the canvas (Fabric
\* deactivates one that is the active object), clear the dash of the shape
\* they belong to, reset the table.
RemoveControlPoints(s) ==
    IF ~s.hasCanvas THEN s
    ELSE ClearTable(
           IF s.activeObject \in (SeqSet(s.controlPoints.points)
                                  \cap SeqSet(s.objects))
           THEN Deactivate([s EXCEPT !.objects = SelectSeq(s.objects,
                    LAMBDA x : x \notin SeqSet(s.controlPoints.points))])
           ELSE [s EXCEPT !.objects = SelectSeq(s.objects,
                    LAMBDA x : x \notin SeqSet(s.controlPoints.points))],
           s.controlPoints.shape)

\* A handleDeselected that leaves an empty text on the canvas.
HandleDeselected_KeepsEmptyText(s, id) ==
    RemoveControlPoints(
      IF s.heap[id].isControlPoint THEN s
      ELSE [s EXCEPT !.heap[id].dashed = FALSE])

\* handleDeselected([obj]): clear the dash, remove an empty text from the
\* canvas, remove the control points.
HandleDeselected(s, id) ==
    RemoveControlPoints(
      IF s.heap[id].isControlPoint THEN s
      ELSE IF IsText(s.heap[id]) /\ TrimIsEmpty(s.heap[id].text)
      THEN [s EXCEPT !.heap[id].dashed = FALSE,
                     !.objects = Without(s.objects, id)]
      ELSE [s EXCEPT !.heap[id].dashed = FALSE])

\* canvas.add(obj) of a newly made object.
Add(s, o) ==
    [s EXCEPT !.heap = (FreshId(s.heap) :> o) @@ s.heap,
              !.objects = Append(s.objects, FreshId(s.heap))]

LastAdded(s) == s.objects[Len(s.objects)]

\* One control circle of `shape`, added to the canvas and to the table.
AddControl(s, shape, pid) ==
    [Add(s, ControlCircle(pid, GetPosition(s.heap[shape].shapeData, pid)))
     EXCEPT !.controlPoints.points =
                Append(s.controlPoints.points, FreshId(s.heap))]

\* Appends one control circle per handle of `shape` to the canvas.
RECURSIVE AddControls(_, _, _)
AddControls(s, shape, pids) ==
    IF Len(pids) = 0 THEN s
    ELSE AddControls(AddControl(s, shape, pids[1]), shape, Tail(pids))

\* createControlPoints(shape)
CreateControlPoints(s, shape) ==
    IF ~s.hasCanvas \/ s.heap[shape].shapeData.type = "none" THEN s
    ELSE AddControls(
           [RemoveControlPoints(s) EXCEPT
              !.controlPoints = [shape |-> shape, points |-> <<>>]],
           shape, ControlPointIds(s.heap[shape].shapeData.type))

\* handleSelected([obj]): non-text shapes get the dashed outline, every
\* shape with shapeData gets its control points.
Outlined(s, id) ==
    IF IsText(s.heap[id]) THEN s ELSE [s EXCEPT !.heap[id].dashed = TRUE]

HandleSelected(s, id) ==
    IF s.heap[id].isControlPoint THEN s
    ELSE IF s.heap[id].shapeData.type # "none"
    THEN CreateControlPoints(Outlined(s, id), id)
    ELSE Outlined(s, id)

\* canvas.discardActiveObject(): fires selection:cleared, whose handler is
\* handleDeselected.
DiscardActiveObject(s) ==
    IF ~s.hasCanvas \/ s.activeObject = 0 THEN s
    ELSE HandleDeselected(Deactivate(s), s.activeObject)

\* The selection event of setActiveObject: selection:created when nothing
\* was active, selection:updated (whose listener returns early for a
\* control point) otherwise.
FireSelection(s, old, id) ==
    IF old = 0 THEN HandleSelected(s, id)
    ELSE IF s.heap[id].isControlPoint THEN s
    ELSE HandleSelected(HandleDeselected(s, old), id)

\* canvas.setActiveObject(obj)
SetActiveObject(s, id) ==
    IF s.activeObject = id THEN s
    ELSE FireSelection([Deactivate(s) EXCEPT !.activeObject = id],
                       s.activeObject, id)

\* canvas.remove(obj): Fabric deselects the object when it is the active
\* one and fires selection:cleared.
Remove(s, id) ==
    IF id \notin SeqSet(s.objects) THEN s
    ELSE IF s.activeObject = id
    THEN HandleDeselected(
           Deactivate([s EXCEPT !.objects = Without(s.objects, id)]), id)
    ELSE [s EXCEPT !.objects = Without(s.objects, id)]

\* ------------------------------------------------ useFabricCanvas handlers

\* A handleMouseDown that starts drawing whatever the pointer is on (not the
\* program's).
HandleMouseDown_IgnoresTarget(s, p, target) ==
    IF ~s.hasCanvas \/ s.activeTool = NoTool THEN s
    ELSE DiscardActiveObject(
           [s EXCEPT !.isDrawing = TRUE, !.drawStartPoint = p,
                     !.penPoints = <<p>>])

\* handleMouseDown(opt): with a tool active and no target under the
\* pointer, a drawing gesture starts and the selection is discarded.
HandleMouseDown(s, p, target) ==
    IF ~s.hasCanvas \/ s.activeTool = NoTool THEN s
    ELSE IF target # 0 THEN s
    ELSE DiscardActiveObject(
           [s EXCEPT !.isDrawing = TRUE, !.drawStartPoint = p,
                     !.penPoints = <<p>>])

\* The second mouse:down listener of initCanvas: remember the target's
\* position and make sure the control points are those of the target.
RecordMouseDown(s, target) ==
    IF target = 0 \/ s.heap[target].isControlPoint THEN s
    ELSE IF s.heap[target].shapeData.type # "none"
            /\ s.controlPoints.shape # target
    THEN CreateControlPoints(
           [s EXCEPT !.lastObjectPosition =
              [set |-> TRUE, left |-> s.heap[target].left,
               top |-> s.heap[target].top]], target)
    ELSE [s EXCEPT !.lastObjectPosition =
            [set |-> TRUE, left |-> s.heap[target].left,
             top |-> s.heap[target].top]]

\* currentObject.value = the object just added
TrackLast(s) == [s EXCEPT !.currentObject = LastAdded(s)]

\* The pointer of handleMouseMove, kept inside the canvas.
Clamped(s, p) == <<Max(0, Min(p[1], s.canvasW)), Max(0, Min(p[2], s.canvasH))>>

\* handleMouseMove after the old transient object is gone: the pen collects
\* the point, and the data the handler accepts becomes the new transient.
DrawTransient(s, data, pen) ==
    IF data.type = "rejected" THEN [s EXCEPT !.penPoints = pen]
    ELSE TrackLast(Add([s EXCEPT !.penPoints = pen],
                       [CreatePath(data, s.drawingConfig) EXCEPT !.evented = FALSE]))

PenAfter(s, p) ==
    IF s.activeTool = "pen" THEN Append(s.penPoints, Clamped(s, p))
    ELSE s.penPoints

\* handleMouseMove(opt): replace the transient object by one made from the
\* start point and the clamped pointer (plus the pen's points so far).
HandleMouseMove(s, p) ==
    IF ~s.hasCanvas \/ ~s.isDrawing \/ s.activeTool = NoTool THEN s
    ELSE DrawTransient(
           IF s.currentObject # 0 THEN Remove(s, s.currentObject) ELSE s,
           CreateData(s.activeTool, s.drawStartPoint, Clamped(s, p),
                      PenAfter(s, p)),
           PenAfter(s, p))

\* handleMouseUp, first part: a click-only text gesture creates its text.
MakeClickText(s) ==
    IF s.currentObject = 0 /\ s.activeTool = "text"
    THEN TrackLast(Add(s, CreatePath(CreateData("text", s.drawStartPoint,
                                                s.drawStartPoint, <<>>),
                                     s.drawingConfig)))
    ELSE s

\* A text enters edit mode right after it has been selected.
EditIfText(s, id) ==
    IF IsText(s.heap[id]) THEN EnterEditingObj(s, id) ELSE s

ForgetCurrent(s) == [s EXCEPT !.currentObject = 0]

\* handleMouseUp, second part: the object in currentObject is made
\* selectable, dashed unless it is a text, filled with the stroke colour
\* when it is a text and with nothing otherwise, selected, a text enters
\* edit mode, and one history entry is pushed.
CommitShape(s) ==
    IF s.currentObject = 0 THEN s
    ELSE ForgetCurrent(SaveHistory(EditIfText(
           SetActiveObject(
             [s EXCEPT !.heap[s.currentObject].evented = TRUE,
                       !.heap[s.currentObject].dashed =
                           ~IsText(s.heap[s.currentObject]),
                       !.heap[s.currentObject].style.fill =
                           IF IsText(s.heap[s.currentObject])
                           THEN s.drawingConfig.strokeColor
                           ELSE "transparent"],
             s.currentObject),
           s.currentObject)))

ClearPen(s) == [s EXCEPT !.penPoints = <<>>]

\* A handleMouseUp that leaves isDrawing set (not the program's).
HandleMouseUp_StillDrawing(s) ==
    IF ~s.hasCanvas \/ ~s.isDrawing THEN s
    ELSE ClearPen(CommitShape(MakeClickText(s)))

\* handleMouseUp()
HandleMouseUp(s) ==
    IF ~s.hasCanvas \/ ~s.isDrawing THEN s
    ELSE ClearPen(CommitShape(MakeClickText([s EXCEPT !.isDrawing = FALSE])))

\* An object:moving that records every step in the history (not the
\* program's).
ObjectMoving_SavesEachStep(s, id) ==
    LET o == s.heap[id]
        dx == o.left - s.lastObjectPosition.left
        dy == o.top - s.lastObjectPosition.top
    IN IF o.shapeData.type = "none" THEN s
       ELSE IF ~s.lastObjectPosition.set
       THEN [s EXCEPT !.lastObjectPosition =
               [set |-> TRUE, left |-> o.left, top |-> o.top]]
       ELSE IF dx = 0 /\ dy = 0 THEN s
       ELSE SaveHistory(
              [UpdateAllControlPoints(
                 [s EXCEPT !.heap[id].shapeData =
                              MoveData(o.shapeData, dx, dy)], id)
               EXCEPT !.lastObjectPosition =
                 [set |-> TRUE, left |-> o.left, top |-> o.top]])

\* canvas.on("object:moving"): translate the shapeData of the dragged shape
\* by the distance its object moved since the last event.
ObjectMoving(s, id) ==
    LET o == s.heap[id]
        dx == o.left - s.lastObjectPosition.left
        dy == o.top - s.lastObjectPosition.top
    IN IF o.shapeData.type = "none" THEN s
       ELSE IF ~s.lastObjectPosition.set
       THEN [s EXCEPT !.lastObjectPosition =
               [set |-> TRUE, left |-> o.left, top |-> o.top]]
       ELSE IF dx = 0 /\ dy = 0 THEN s
       ELSE [UpdateAllControlPoints(
                [s EXCEPT !.heap[id].shapeData =
                             MoveData(o.shapeData, dx, dy)], id)
             EXCEPT !.lastObjectPosition =
                [set |-> TRUE, left |-> o.left, top |-> o.top]]

\* The shape takes the data a control point's onDrag returned: its geometry
\* follows it, and every control point is put where its definition says.
ReshapeTo(s, shape, newData) ==
    UpdateAllControlPoints(
      [s EXCEPT !.heap[shape].shapeData = newData,
                !.heap[shape].left = SeqMin(newData.pts, 1),
                !.heap[shape].top = SeqMin(newData.pts, 2)],
      shape)

\* The path updateShapeFromControl takes from a temporary createPath: an
\* arrow's polygon is made for the stroke width of the object
\* (shape.strokeWidth || 1), not for the width it was drawn with.
Rebuilt(s, shape) ==
    IF s.heap[shape].shapeData.type = "arrow"
    THEN [s EXCEPT !.heap[shape].style.pathWidth =
            IF s.heap[shape].style.strokeWidth = 0 THEN 1
            ELSE s.heap[shape].style.strokeWidth]
    ELSE s

\* updateShapeFromControl(shape, control, def)
UpdateShapeFromControl(s, shape, control) ==
    IF ~s.hasCanvas \/ s.heap[shape].shapeData.type = "none" THEN s
    ELSE ReshapeTo(Rebuilt(s, shape), shape,
                   OnDrag(s.heap[shape].shapeData, s.heap[control].pointId,
                          <<s.heap[control].left, s.heap[control].top>>))

\* undo / redo up to the await: set the guard, move the cursor, start the
\* load of the entry under the cursor.
StartLoad(s, step) ==
    LET idx == s.historyIndex + step
    IN [s EXCEPT !.isLoadingHistory = TRUE, !.historyIndex = idx,
                 !.loads = Append(s.loads,
                                  [json |-> s.history[idx + 1],
                                   stale |-> FALSE])]

\* A redo that loads the entry under the cursor again.
Redo_SameEntry(s) ==
    IF ~s.hasCanvas \/ s.historyIndex >= Len(s.history) - 1 THEN s
    ELSE StartLoad(s, 0)

Undo(s) ==
    IF ~s.hasCanvas \/ s.historyIndex <= 0 THEN s ELSE StartLoad(s, -1)

Redo(s) ==
    IF ~s.hasCanvas \/ s.historyIndex >= Len(s.history) - 1 THEN s
    ELSE StartLoad(s, 1)

RECURSIVE AddAll(_, _)
AddAll(s, js) ==
    IF Len(js) = 0 THEN s ELSE AddAll(Add(s, FromObject(js[1])), Tail(js))

\* canvas.loadFromJSON resolving: Fabric's clear() discards the active
\* object and removes every object, then the enlivened objects are added.
LoadFromJSON(s, json) ==
    LET discarded == [DiscardActiveObject(s) EXCEPT !.activeObject = 0]
    IN AddAll([discarded EXCEPT !.objects = <<>>], json)

\* undo / redo after the await. The load acts on the canvas it was started
\* on; on a canvas disposed meanwhile it changes nothing the program
\* holds, and `threw` tells whether Fabric rejected it, in which case the
\* statements after the await never run and the guard stays up.
FinishLoad(s, i, threw) ==
    LET l == s.loads[i]
        rest == [s EXCEPT !.loads = SubSeq(s.loads, 1, i - 1)
                                    \o SubSeq(s.loads, i + 1, Len(s.loads))]
    IN IF l.stale
       THEN IF threw THEN rest ELSE [rest EXCEPT !.isLoadingHistory = FALSE]
       ELSE [LoadFromJSON(rest, l.json) EXCEPT !.isLoadingHistory = FALSE]

\* A resetHistory that keeps the log.
ResetHistory_Keeps(s) == s

\* resetHistory
ResetHistory(s) == [s EXCEPT !.history = <<>>, !.historyIndex = -1]

\* initCanvas(el, w, h): dispose the canvas that exists, create a new one.
\* Loads that are in flight belong to the disposed canvas from now on.
InitCanvas(s, w, h) ==
    [s EXCEPT !.hasCanvas = TRUE, !.canvasW = w, !.canvasH = h,
              !.objects = <<>>, !.activeObject = 0,
              !.transform = NoTransform,
              !.loads = [i \in 1..Len(s.loads) |->
                           [s.loads[i] EXCEPT !.stale = TRUE]]]

\* A dispose that keeps the history (not the program's).
Dispose_KeepsHistory(s) ==
    [s EXCEPT !.hasCanvas = FALSE, !.objects = <<>>, !.activeObject = 0,
              !.transform = NoTransform,
              !.loads = [i \in 1..Len(s.loads) |->
                           [s.loads[i] EXCEPT !.stale = TRUE]],
              !.activeTool = NoTool, !.isDrawing = FALSE,
              !.currentObject = 0, !.penPoints = <<>>,
              !.controlPoints = NoControlPoints]

\* dispose(): the canvas is disposed and forgotten, the tool, the drawing
\* state, the control-point table and the history are reset.
Dispose(s) ==
    ResetHistory(
      [s EXCEPT !.hasCanvas = FALSE, !.objects = <<>>, !.activeObject = 0,
                !.transform = NoTransform,
                !.loads = [i \in 1..Len(s.loads) |->
                             [s.loads[i] EXCEPT !.stale = TRUE]],
                !.activeTool = NoTool, !.isDrawing = FALSE,
                !.currentObject = 0, !.penPoints = <<>>,
                !.controlPoints = NoControlPoints])

\* setActiveTool(tool): choosing a tool discards the selection.
SetActiveTool(s, tool) ==
    LET set == [s EXCEPT !.activeTool = tool]
    IN IF s.hasCanvas /\ tool # NoTool THEN DiscardActiveObject(set) ELSE set

\* canvas.on("text:changed"): copy the text into the shapeData.
TextChanged(s, id) ==
    IF s.heap[id].shapeData.type = "text"
    THEN UpdateAllControlPoints(
           [s EXCEPT !.heap[id].shapeData.text = s.heap[id].text], id)
    ELSE s

\* canUndo() / canRedo(): what enables the toolbar's undo and redo buttons.
canUndo(s) == s.historyIndex > 0
canRedo(s) == s.historyIndex < Len(s.history) - 1

\* ------------------------------------------- Screenshot (capture window)

\* bounds: the size of the captured screen, in physical pixels.
CaptureBounds == [w |-> 40, h |-> 30]

\* scaleFactor of renderBackground: physical pixels per CSS pixel.
ScaleFactor == [x |-> 2, y |-> 2]

\* Where the pointer is pressed outside the drawing surface and where it is
\* dragged to, in client (CSS) coordinates.
PressPts == { <<0, 0>> }
ClientPts == { <<0, 0>>, <<20, 15>> }

\* toCanvasCoords(clientX, clientY)
ToCanvasCoords(c) == <<c[1] * ScaleFactor.x, c[2] * ScaleFactor.y>>

NoSelection == [some |-> FALSE, x |-> 0, y |-> 0, w |-> 0, h |-> 0]
Rect(x, y, w, h) == [some |-> TRUE, x |-> x, y |-> y, w |-> w, h |-> h]
NoHandle == "none"

\* threshold of getResizeHandle, and the smallest side a dragged selection
\* may have before pointer-up replaces it by the whole screen.
HandleThreshold == 12
MinSelectionSide == 10

\* isInsideSelection(x, y)
isInsideSelection(sel, pos) ==
    /\ sel.some
    /\ pos[1] > sel.x /\ pos[1] < sel.x + sel.w
    /\ pos[2] > sel.y /\ pos[2] < sel.y + sel.h

\* getResizeHandle(x, y): corners before edges.
getResizeHandle(sel, pos) ==
    LET nearL == Abs(pos[1] - sel.x) < HandleThreshold
        nearR == Abs(pos[1] - (sel.x + sel.w)) < HandleThreshold
        nearT == Abs(pos[2] - sel.y) < HandleThreshold
        nearB == Abs(pos[2] - (sel.y + sel.h)) < HandleThreshold
        inY == pos[2] > sel.y /\ pos[2] < sel.y + sel.h
        inX == pos[1] > sel.x /\ pos[1] < sel.x + sel.w
    IN IF ~sel.some THEN NoHandle
       ELSE IF nearL /\ nearT THEN "nw"
       ELSE IF nearR /\ nearT THEN "ne"
       ELSE IF nearL /\ nearB THEN "sw"
       ELSE IF nearR /\ nearB THEN "se"
       ELSE IF nearL /\ inY THEN "w"
       ELSE IF nearR /\ inY THEN "e"
       ELSE IF nearT /\ inX THEN "n"
       ELSE IF nearB /\ inX THEN "s"
       ELSE NoHandle

\* The same without the last four lines (not the program's).
ResizedIn_NotKeptOnScreen(b, from, handle, dx, dy) ==
    LET movesL == handle \in {"nw", "sw", "w"}
        movesR == handle \in {"ne", "se", "e"}
        movesT == handle \in {"nw", "ne", "n"}
        movesB == handle \in {"sw", "se", "s"}
        x0 == IF movesL THEN from.x + dx ELSE from.x
        y0 == IF movesT THEN from.y + dy ELSE from.y
        w0 == IF movesL THEN from.w - dx
              ELSE IF movesR THEN from.w + dx ELSE from.w
        h0 == IF movesT THEN from.h - dy
              ELSE IF movesB THEN from.h + dy ELSE from.h
        x1 == IF w0 < 0 THEN x0 + w0 ELSE x0
        w1 == IF w0 < 0 THEN -w0 ELSE w0
        y1 == IF h0 < 0 THEN y0 + h0 ELSE y0
        h1 == IF h0 < 0 THEN -h0 ELSE h0
    IN Rect(x1, y1, w1, h1)

\* The resize branch of the window's handleMouseMove: the selection the
\* handle gives, flipped when dragged through itself, kept on the screen.
ResizedIn(b, from, handle, dx, dy) ==
    LET movesL == handle \in {"nw", "sw", "w"}
        movesR == handle \in {"ne", "se", "e"}
        movesT == handle \in {"nw", "ne", "n"}
        movesB == handle \in {"sw", "se", "s"}
        x0 == IF movesL THEN from.x + dx ELSE from.x
        y0 == IF movesT THEN from.y + dy ELSE from.y
        w0 == IF movesL THEN from.w - dx
              ELSE IF movesR THEN from.w + dx ELSE from.w
        h0 == IF movesT THEN from.h - dy
              ELSE IF movesB THEN from.h + dy ELSE from.h
        x1 == IF w0 < 0 THEN x0 + w0 ELSE x0
        w1 == IF w0 < 0 THEN -w0 ELSE w0
        y1 == IF h0 < 0 THEN y0 + h0 ELSE y0
        h1 == IF h0 < 0 THEN -h0 ELSE h0
        x2 == Max(0, x1)
        y2 == Max(0, y1)
    IN Rect(x2, y2, Min(b.w - x2, w1), Min(b.h - y2, h1))

Resized(from, handle, dx, dy) == ResizedIn(CaptureBounds, from, handle, dx, dy)

\* A hasFabricObjects that never finds an object (not the program's).
hasFabricObjects_Never(s) == FALSE

\* hasFabricObjects()
hasFabricObjects(s) == s.hasCanvas /\ Len(s.objects) > 0

\* The colours and the sizes the toolbar offers (two of each).
Colors == { "#ff0000", "#0066ff" }
Widths == { 3, 9 }

\* The font size setStrokeWidth gives a text for the width `w`.
FontSizeOf(w) == 16 + (w - 1) * 4

\* activeObject.set("fill" / "stroke", color): a text takes the colour as
\* its fill, every other object as its stroke.
Recolored(o, color) ==
    IF IsText(o) THEN [o EXCEPT !.style.fill = color]
    ELSE [o EXCEPT !.style.stroke = color]

\* activeObject.set("fontSize" / "strokeWidth", ...)
Rewidened(o, w) ==
    IF IsText(o) THEN [o EXCEPT !.style.fontSize = FontSizeOf(w)]
    ELSE [o EXCEPT !.style.strokeWidth = w,
                   !.widthAsked = IF o.madeAs = "arrow" THEN w ELSE 0]

\* setStrokeColor(color): the config takes the colour; the active object,
\* if there is one, takes it too and one history entry is pushed.
setStrokeColor(s, color) ==
    IF ~s.hasCanvas \/ s.activeObject = 0
    THEN [s EXCEPT !.drawingConfig.strokeColor = color]
    ELSE SaveHistory(
           [s EXCEPT !.drawingConfig.strokeColor = color,
                     !.heap[s.activeObject] =
                         Recolored(s.heap[s.activeObject], color)])

\* setStrokeWidth(width)
setStrokeWidth(s, w) ==
    IF ~s.hasCanvas \/ s.activeObject = 0
    THEN [s EXCEPT !.drawingConfig.strokeWidth = w]
    ELSE SaveHistory(
           [s EXCEPT !.drawingConfig.strokeWidth = w,
                     !.heap[s.activeObject] =
                         Rewidened(s.heap[s.activeObject], w)])

\* The toolbar's v-if: its buttons can be clicked.
ToolbarShown ==
    /\ selection.some /\ ~isSelecting /\ ~isResizing
    /\ selection.w > MinSelectionSide /\ selection.h > MinSelectionSide

\* selectTool(tool): the active tool's button switches the tool off.
selectTool(s, tool) ==
    IF s.activeTool = tool THEN SetActiveTool(s, NoTool)
    ELSE DiscardActiveObject(SetActiveTool(s, tool))

\* resetSelection() / close(), as far as the drawing surface goes.
resetSurface(s) == Dispose(SetActiveTool(s, NoTool))

\* ------------------------------------------------------------ transitions

vars == <<hasCanvas, canvasW, canvasH, heap, objects, activeObject, transform,
          activeTool, isDrawing, drawStartPoint, currentObject, penPoints,
          history, historyIndex, isLoadingHistory, lastObjectPosition,
          controlPoints, loads, drawingConfig, inits, selection, isSelecting,
          isResizing,
          resizeHandle, startPos, dragStartPos, dragStartSelection,
          pointerDown, nMoves, nSelections, stepsLeft, gesture, lastOp,
          cutOff, probe, calc, isDragging, isReady, mask, confirms, clicks,
          screens, mount, clip>>

wvars == <<selection, isSelecting, isDragging, isResizing, resizeHandle,
           startPos, dragStartPos, dragStartSelection, mask>>

svars == <<isReady, confirms>>

\* Everything but `calc` and `screens`.
ovars == <<fvars, wvars, svars, inits, pointerDown, nMoves, nSelections,
           stepsLeft, clicks, gesture, lastOp, cutOff, probe, mount, clip>>

RECURSIVE Ascending(_)
Ascending(S) ==
    IF S = {} THEN <<>>
    ELSE LET m == CHOOSE x \in S : \A y \in S : x <= y
         IN <<m>> \o Ascending(S \ {m})

\* The objects the program can still reach: those on the canvas, and those
\* a reference of the composable or of Fabric keeps alive.
Reachable(r) ==
    (SeqSet(r.objects) \cup SeqSet(r.controlPoints.points)
     \cup {r.activeObject, r.currentObject, r.transform.target,
           r.controlPoints.shape}) \ {0}

\* The same state with the unreachable objects collected and the others
\* numbered in canvas order: object identity is all the ids stand for.
Collected(r) ==
    LET ord == r.objects \o Ascending(Reachable(r) \ SeqSet(r.objects))
        ren(id) == IF id = 0 THEN 0
                   ELSE CHOOSE k \in 1..Len(ord) : ord[k] = id
    IN [r EXCEPT
          !.heap = [k \in 1..Len(ord) |-> r.heap[ord[k]]],
          !.objects = [k \in 1..Len(r.objects) |-> k],
          !.activeObject = ren(r.activeObject),
          !.currentObject = ren(r.currentObject),
          !.transform = [r.transform EXCEPT !.target = ren(r.transform.target)],
          !.controlPoints =
              [shape |-> ren(r.controlPoints.shape),
               points |-> [k \in 1..Len(r.controlPoints.points) |->
                              ren(r.controlPoints.points[k])]]]

\* The surface takes the state `c`, within the bounds.
Becomes(c) ==
    /\ Len(c.history) <= MaxHistory
    /\ Len(PersistentOf(c)) <= MaxObjects
    /\ Len(c.loads) <= MaxPending
    /\ hasCanvas' = c.hasCanvas
    /\ canvasW' = c.canvasW
    /\ canvasH' = c.canvasH
    /\ heap' = c.heap
    /\ objects' = c.objects
    /\ activeObject' = c.activeObject
    /\ transform' = c.transform
    /\ activeTool' = c.activeTool
    /\ isDrawing' = c.isDrawing
    /\ drawStartPoint' = c.drawStartPoint
    /\ currentObject' = c.currentObject
    /\ penPoints' = c.penPoints
    /\ history' = c.history
    /\ historyIndex' = c.historyIndex
    /\ isLoadingHistory' = c.isLoadingHistory
    /\ lastObjectPosition' = c.lastObjectPosition
    /\ controlPoints' = c.controlPoints
    /\ loads' = c.loads
    /\ drawingConfig' = c.drawingConfig

\* The surface takes the state a handler leaves.
Commit(r) == Becomes(Collected(r))

Persistent == PersistentOf(St)

OnCanvas(s, id) == id # 0 /\ id \in SeqSet(s.objects)

ShapeList == ShapeListOf(St)

NoGesture == [kind |-> "none", base |-> <<>>, blankAt |-> 0, clean |-> TRUE,
              last |-> <<0, 0>>, rejected |-> FALSE, target |-> 0]
NoCalc == [stage |-> "none", data |-> NoData, dx |-> 0, dy |-> 0,
           result |-> NoData]
NoProbe == [phase |-> "none", pre |-> <<>>, op |-> "other"]

\* A transition in which saveHistory pushed (not the reset-and-push of an
\* initialisation), and the number of entries that push cut off the log.
PushStep ==
    /\ hasCanvas /\ hasCanvas' /\ inits' = inits
    /\ \/ history' # history
       \/ historyIndex' # historyIndex /\ Len(loads') <= Len(loads)
Discards == IF PushStep THEN Len(history) - 1 - historyIndex ELSE 0

\* The position in the persistent list of the active object when it is a
\* text with nothing visible in it, 0 otherwise.
BlankActiveAt ==
    IF OnCanvas(St, activeObject) /\ IsText(heap[activeObject])
       /\ TrimIsEmpty(heap[activeObject].text)
    THEN Cardinality({k \in 1..Len(objects) :
                        /\ ~heap[objects[k]].isControlPoint
                        /\ \E m \in 1..Len(objects) :
                              objects[m] = activeObject /\ k <= m})
    ELSE 0

RemoveAt(seq, k) ==
    IF k = 0 THEN seq
    ELSE SubSeq(seq, 1, k - 1) \o SubSeq(seq, k + 1, Len(seq))

\* A rect / ellipse gesture whose pointer is less than 2 px from its start
\* in x or in y.
Tiny ==
    /\ activeTool \in {"rect", "ellipse"}
    /\ \/ Abs(gesture.last[1] - drawStartPoint[1]) < 2
       \/ Abs(gesture.last[2] - drawStartPoint[2]) < 2

\* Fabric's findTarget: the objects a press can land on. With
\* perPixelTargetFind a text that draws nothing is hit only while edited.
Hittable(s) ==
    { id \in SeqSet(s.objects) :
        /\ s.heap[id].evented
        /\ (IsText(s.heap[id]) /\ TrimIsEmpty(s.heap[id].text))
              => s.heap[id].isEditing }

\* The surface variables hold the state `c`.
Surface(c) ==
    /\ hasCanvas = c.hasCanvas /\ canvasW = c.canvasW /\ canvasH = c.canvasH
    /\ heap = c.heap /\ objects = c.objects
    /\ activeObject = c.activeObject /\ transform = c.transform
    /\ activeTool = c.activeTool /\ isDrawing = c.isDrawing
    /\ drawStartPoint = c.drawStartPoint
    /\ currentObject = c.currentObject /\ penPoints = c.penPoints
    /\ history = c.history /\ historyIndex = c.historyIndex
    /\ isLoadingHistory = c.isLoadingHistory
    /\ lastObjectPosition = c.lastObjectPosition
    /\ controlPoints = c.controlPoints /\ loads = c.loads
    /\ drawingConfig = c.drawingConfig

\* A renderMask that draws whatever selection there is (not the program's).
RenderMask_AnyBox(sel) == sel

\* renderMask(): the selection is drawn with its border and handles when it
\* has an area.
RenderMask(sel) ==
    IF sel.some /\ sel.w > 0 /\ sel.h > 0 THEN sel ELSE NoSelection

\* No window of another screen is looked at.
NoScreens == [win |-> <<>>, notes |-> <<>>, held |-> 0,
              clicks |-> [at |-> 0, pos |-> <<0, 0>>, n |-> 0], left |-> 0,
              steps |-> 0]

\* counted: clicks are counted at all (where a double click is among the
\* inputs); n: presses and releases in place; bare: there was no selection
\* at the first press; done: the double click has been delivered.
NoClicks == [counted |-> FALSE, n |-> 0, bare |-> FALSE, done |-> FALSE]

\* onMounted has run to its end and the capture has been processed: the
\* fetch is settled, no processCaptures is waiting for its bitmap, and the
\* background canvas holds the bitmap.
Mounted == [fetch |-> "settled", events |-> 0, runs |-> 0, drawn |-> TRUE]

\* The clipboard list window is not looked at.
NoClip == [backend |-> <<>>, history |-> <<>>, searchQuery |-> <<>>,
           selectedIndex |-> 0, calls |-> <<>>, events |-> 0,
           lastDelete |-> [asked |-> 0, removed |-> 0], steps |-> 0]

\* The window as it is shown: no drag, the mask drawn, nothing to confirm.
OpenedWindow ==
    /\ isDragging = FALSE /\ mask = RenderMask(selection)
    /\ isReady = TRUE /\ confirms = <<>>
    /\ mount = Mounted /\ clip = NoClip

\* The same when no other screen is looked at.
Opened == screens = NoScreens /\ OpenedWindow

\* useFabricCanvas() right after the composable is set up: no canvas yet.
InitSt ==
    [hasCanvas |-> FALSE, canvasW |-> 0, canvasH |-> 0,
     heap |-> <<>>, objects |-> <<>>, activeObject |-> 0,
     transform |-> NoTransform, activeTool |-> NoTool,
     isDrawing |-> FALSE, drawStartPoint |-> <<0, 0>>,
     currentObject |-> 0, penPoints |-> <<>>,
     history |-> <<>>, historyIndex |-> -1, isLoadingHistory |-> FALSE,
     lastObjectPosition |-> NoPosition,
     controlPoints |-> NoControlPoints, loads |-> <<>>,
     drawingConfig |-> DefaultDrawingConfig]

\* The capture window after its capture has been processed.
Init ==
    /\ Surface(InitSt)
    /\ inits = 0
    /\ selection = NoSelection /\ isSelecting = FALSE /\ isResizing = FALSE
    /\ resizeHandle = NoHandle /\ startPos = <<0, 0>>
    /\ dragStartPos = <<0, 0>> /\ dragStartSelection = NoSelection
    /\ pointerDown = FALSE /\ nMoves = 0 /\ nSelections = 0
    /\ stepsLeft = MaxSteps
    /\ gesture = NoGesture /\ lastOp = "other" /\ cutOff = 0
    /\ probe = NoProbe /\ calc = NoCalc
    /\ Opened /\ clicks = NoClicks

\* The surface once the whole screen has been selected by a click, the
\* background has loaded, `tool` has been chosen and a first shape has been
\* drawn with it from <<1, 1>> (a text by a click, the others by a drag that
\* leaves the surface).
Drawn(tool) ==
    LET ready == SaveHistory(ResetHistory(
                   InitCanvas(InitSt, CaptureBounds.w, CaptureBounds.h)))
        armed == selectTool(ready, tool)
        down == RecordMouseDown(HandleMouseDown(armed, <<1, 1>>, 0), 0)
        dragged == IF tool = "text" THEN down
                   ELSE HandleMouseMove(down, <<90, 70>>)
    IN Collected(HandleMouseUp(dragged))

\* The window in that state.
InitDrawn ==
    /\ \E tool \in Tools : Surface(Drawn(tool))
    /\ inits = 0
    /\ selection = Rect(0, 0, CaptureBounds.w, CaptureBounds.h)
    /\ isSelecting = FALSE /\ isResizing = FALSE
    /\ resizeHandle = NoHandle /\ startPos = <<0, 0>>
    /\ dragStartPos = <<0, 0>> /\ dragStartSelection = NoSelection
    /\ pointerDown = FALSE /\ nMoves = 0 /\ nSelections = 1
    /\ stepsLeft = MaxDrawnSteps
    /\ gesture = NoGesture /\ lastOp = "draw" /\ cutOff = 0
    /\ probe = NoProbe /\ calc = NoCalc
    /\ Opened /\ clicks = NoClicks

\* Every transition is one input or one completion, and uses up one step.
Step ==
    /\ stepsLeft > 0 /\ stepsLeft' = stepsLeft - 1
    /\ UNCHANGED <<calc, screens, mount, clip>>
Tick == Step /\ UNCHANGED svars

\* An input of the user reaches the window while it is shown.
Input == Tick /\ isReady

\* The presses and releases that lead to a double click: a press starts
\* the count over after a move or a double click, and remembers whether
\* there was a selection when the first of them came.
Unclicked == [NoClicks EXCEPT !.counted = clicks.counted]
ClicksDown ==
    IF ~clicks.counted THEN clicks
    ELSE IF clicks.n = 0 \/ clicks.done
    THEN [Unclicked EXCEPT !.bare = ~selection.some]
    ELSE clicks
ClicksUp ==
    IF ~clicks.counted THEN clicks
    ELSE IF nMoves = 0 THEN [clicks EXCEPT !.n = Min(2, clicks.n + 1)]
    ELSE Unclicked

\* --- the toolbar

\* A tool button is clicked.
SelectTool(tool) ==
    /\ Input
    /\ ~pointerDown /\ ToolbarShown
    /\ Commit(selectTool(St, tool))
    /\ lastOp' = "other" /\ probe' = NoProbe
    /\ UNCHANGED <<inits, wvars, pointerDown, nMoves, nSelections, gesture>>
    /\ cutOff' = Discards
    /\ clicks' = Unclicked

\* A colour of the palette is clicked.
StrokeColor(color) ==
    /\ Input
    /\ ~pointerDown /\ ToolbarShown
    /\ Commit(setStrokeColor(St, color))
    /\ lastOp' = "colour" /\ probe' = NoProbe
    /\ UNCHANGED <<inits, wvars, pointerDown, nMoves, nSelections, gesture>>
    /\ cutOff' = Discards
    /\ clicks' = Unclicked

\* A size of the size popup is clicked.
StrokeWidth(w) ==
    /\ Input
    /\ ~pointerDown /\ ToolbarShown
    /\ Commit(setStrokeWidth(St, w))
    /\ lastOp' = "width" /\ probe' = NoProbe
    /\ UNCHANGED <<inits, wvars, pointerDown, nMoves, nSelections, gesture>>
    /\ cutOff' = Discards
    /\ clicks' = Unclicked

\* The undo button (enabled by canUndo) is clicked: undo() up to its await.
UndoClick ==
    /\ Input
    /\ ~pointerDown /\ ToolbarShown /\ canUndo(St)
    /\ Commit(Undo(St))
    /\ probe' = IF loads = <<>> /\ ~isLoadingHistory
                THEN [phase |-> "undo", pre |-> Persistent, op |-> lastOp]
                ELSE NoProbe
    /\ lastOp' = "other"
    /\ UNCHANGED <<inits, wvars, pointerDown, nMoves, nSelections, gesture>>
    /\ cutOff' = Discards
    /\ clicks' = Unclicked

\* The redo button (enabled by canRedo) is clicked: redo() up to its await.
RedoClick ==
    /\ Input
    /\ ~pointerDown /\ ToolbarShown /\ canRedo(St)
    /\ Commit(Redo(St))
    /\ probe' = IF probe.phase = "undone" /\ loads = <<>>
                THEN [probe EXCEPT !.phase = "redo"] ELSE NoProbe
    /\ lastOp' = "other"
    /\ UNCHANGED <<inits, wvars, pointerDown, nMoves, nSelections, gesture>>
    /\ cutOff' = Discards
    /\ clicks' = Unclicked

\* One loadFromJSON of undo / redo resolves and the function finishes.
LoadResolve(i, threw) ==
    /\ Tick
    /\ i \in 1..Len(loads)
    /\ threw => loads[i].stale
    /\ Commit(FinishLoad(St, i, threw))
    /\ probe' = IF Len(loads) = 1 /\ probe.phase = "undo"
                THEN [probe EXCEPT !.phase = "undone"]
                ELSE IF Len(loads) = 1 /\ probe.phase = "redo"
                THEN [probe EXCEPT !.phase = "redone"]
                ELSE NoProbe
    /\ gesture' = [gesture EXCEPT !.clean = FALSE]
    /\ lastOp' = "other"
    /\ UNCHANGED <<inits, wvars, pointerDown, nMoves, nSelections>>
    /\ cutOff' = Discards
    /\ UNCHANGED clicks

\* --- the pointer on the drawing surface

\* Fabric's part of a press: the target becomes the active object, or the
\* selection is cleared when nothing is hit.
Pick(s, target) ==
    IF target = 0 THEN DiscardActiveObject(s) ELSE SetActiveObject(s, target)

\* Fabric starts a drag of the target, unless it is a text being edited.
Hold(s, target) ==
    IF OnCanvas(s, target) /\ ~s.heap[target].isEditing
    THEN [s EXCEPT !.transform = [target |-> target, moved |-> FALSE,
                                  left |-> s.heap[target].left,
                                  top |-> s.heap[target].top]]
    ELSE s

\* mouse:down: Fabric's part, then both listeners of initCanvas.
Pressed(s, p, target) ==
    RecordMouseDown(HandleMouseDown(Hold(Pick(s, target), target), p, target),
                    target)

\* A press on the surface.
MouseDown(p, target) ==
    /\ Input
    /\ ~pointerDown /\ hasCanvas /\ selection.some
    /\ p[1] < canvasW /\ p[2] < canvasH
    /\ target \in {0} \cup Hittable(St)
    /\ Commit(Pressed(St, p, target))
    /\ gesture' = [kind |-> IF activeTool # NoTool /\ target = 0
                            THEN "draw" ELSE "drag",
                   base |-> ShapeList, blankAt |-> BlankActiveAt,
                   clean |-> TRUE, last |-> p,
                   rejected |-> activeTool # "text", target |-> target]
    /\ pointerDown' = TRUE /\ nMoves' = 0
    /\ lastOp' = "other" /\ probe' = NoProbe
    /\ UNCHANGED <<inits, wvars, nSelections>>
    /\ cutOff' = Discards
    /\ clicks' = ClicksDown

\* The pointer moves while a shape is being drawn.
DrawMove(p) ==
    /\ Input
    /\ hasCanvas /\ isDrawing /\ nMoves < MaxMoves
    /\ Commit(HandleMouseMove(St, p))
    /\ gesture' = [gesture EXCEPT
                     !.last = p,
                     !.rejected = (CreateData(activeTool, drawStartPoint,
                                              Clamped(St, p),
                                              PenAfter(St, p)).type
                                   = "rejected")]
    /\ nMoves' = nMoves + 1
    /\ UNCHANGED <<inits, wvars, pointerDown, nSelections, lastOp, probe>>
    /\ cutOff' = Discards
    /\ clicks' = Unclicked

\* Fabric puts the dragged object where the pointer, which moved by `d`,
\* has taken it since the press (whatever a listener did to its position
\* meanwhile) and fires its moving event: a control point reshapes its
\* shape, a shape's data follows the shape.
Follow(s, t) ==
    IF s.heap[t].isControlPoint
    THEN IF t \in SeqSet(s.controlPoints.points)
         THEN UpdateShapeFromControl(s, s.controlPoints.shape, t)
         ELSE s
    ELSE ObjectMoving(s, t)

Dragged(s, t, d) ==
    Follow([s EXCEPT !.heap[t].left = s.transform.left + d[1],
                     !.heap[t].top = s.transform.top + d[2],
                     !.transform.moved = TRUE,
                     !.transform.left = s.transform.left + d[1],
                     !.transform.top = s.transform.top + d[2]], t)

\* The pointer drags the object Fabric holds: the object follows, and its
\* moving listener runs (a control point's, or the canvas's object:moving).
TransformMove(d) ==
    /\ Input
    /\ hasCanvas /\ nMoves < MaxMoves
    /\ OnCanvas(St, transform.target)
    /\ Commit(Dragged(St, transform.target, d))
    /\ nMoves' = nMoves + 1
    /\ UNCHANGED <<inits, wvars, pointerDown, nSelections, gesture, lastOp, probe>>
    /\ cutOff' = Discards
    /\ clicks' = Unclicked

\* The edited text is typed over.
TypeText(t) ==
    /\ Input
    /\ ~pointerDown /\ hasCanvas
    /\ OnCanvas(St, activeObject) /\ heap[activeObject].isEditing
    /\ t # heap[activeObject].text
    /\ Commit(TextChanged([St EXCEPT !.heap[activeObject].text = t],
                          activeObject))
    /\ lastOp' = "other" /\ probe' = NoProbe
    /\ UNCHANGED <<inits, wvars, pointerDown, nMoves, nSelections, gesture>>
    /\ cutOff' = Discards
    /\ clicks' = Unclicked

\* The selected text is clicked again (or double-clicked): it enters edit
\* mode.
EnterEditing ==
    /\ Input
    /\ ~pointerDown /\ hasCanvas
    /\ OnCanvas(St, activeObject) /\ activeObject \in Hittable(St)
    /\ IsText(heap[activeObject]) /\ ~heap[activeObject].isEditing
    /\ Commit(EnterEditingObj(St, activeObject))
    /\ lastOp' = "other" /\ probe' = NoProbe
    /\ UNCHANGED <<inits, wvars, pointerDown, nMoves, nSelections, gesture>>
    /\ cutOff' = Discards
    /\ clicks' = Unclicked

\* mouse:up: Fabric ends its drag, then the listener of initCanvas runs.
Released(s) == HandleMouseUp(FinalizeTransform(s))

\* The button is released. Fabric ends its drag (object:modified when the
\* object moved) and fires mouse:up; the window's handleMouseUp ends a
\* selection drag, replacing a selection that is too small by the whole
\* screen and calling renderSelectionCanvas, which creates the surface and
\* starts loading its background.
MouseUp ==
    /\ Input
    /\ pointerDown
    /\ LET sel == IF selection.w < MinSelectionSide
                     \/ selection.h < MinSelectionSide
                  THEN Rect(0, 0, CaptureBounds.w, CaptureBounds.h)
                  ELSE selection
           renders == isSelecting /\ selection.some
           quiet == loads = <<>> /\ ~isLoadingHistory
       IN /\ renders => inits < MaxPending
          /\ Commit(IF renders THEN InitCanvas(Released(St), sel.w, sel.h)
                    ELSE Released(St))
          /\ selection' = IF renders THEN sel ELSE selection
          /\ mask' = IF renders /\ sel # selection THEN RenderMask(sel)
                     ELSE mask
          /\ inits' = IF renders THEN inits + 1 ELSE inits
          /\ lastOp' =
               IF ~gesture.clean \/ ~hasCanvas THEN "other"
               ELSE IF gesture.kind = "draw"
               THEN IF gesture.rejected
                    THEN IF Tiny THEN "tiny" ELSE "discard"
                    ELSE IF quiet THEN "draw" ELSE "other"
               ELSE IF quiet /\ transform.moved
                       /\ OnCanvas(St, transform.target)
               THEN IF heap[transform.target].isControlPoint
                    THEN "resize" ELSE "move"
               ELSE "other"
    /\ isSelecting' = FALSE /\ isDragging' = FALSE /\ isResizing' = FALSE
    /\ resizeHandle' = NoHandle /\ dragStartSelection' = NoSelection
    /\ pointerDown' = FALSE /\ nMoves' = 0
    /\ gesture' = NoGesture /\ probe' = NoProbe
    /\ UNCHANGED <<startPos, dragStartPos, nSelections>>
    /\ cutOff' = Discards
    /\ clicks' = ClicksUp

\* --- the pointer outside the drawing surface

\* A press the window's handleMouseDown handles: it starts a selection
\* when there is none, a resize when it lands on a handle of a selection
\* that has no drawing yet, and is ignored otherwise.
WinMouseDown(c) ==
    LET pos == ToCanvasCoords(c)
        handle == getResizeHandle(selection, pos)
        resizes == /\ selection.some /\ ~isInsideSelection(selection, pos)
                   /\ ~hasFabricObjects(St) /\ handle # NoHandle
    IN /\ Input
       /\ ~pointerDown
       /\ ~(hasCanvas /\ isInsideSelection(selection, pos))
       /\ IF ~selection.some
          THEN /\ nSelections < MaxSelections
               /\ nSelections' = nSelections + 1
               /\ isSelecting' = TRUE
               /\ startPos' = pos
               /\ selection' = Rect(pos[1], pos[2], 0, 0)
               /\ mask' = RenderMask(Rect(pos[1], pos[2], 0, 0))
               /\ UNCHANGED <<isDragging, isResizing, resizeHandle,
                              dragStartPos, dragStartSelection>>
          ELSE IF resizes
          THEN /\ isResizing' = TRUE
               /\ resizeHandle' = handle
               /\ dragStartPos' = pos
               /\ dragStartSelection' = selection
               /\ UNCHANGED <<isSelecting, isDragging, startPos, selection,
                              mask, nSelections>>
          ELSE UNCHANGED <<wvars, nSelections>>
       /\ pointerDown' = TRUE /\ nMoves' = 0
       /\ gesture' = [NoGesture EXCEPT !.kind = "window"]
       /\ lastOp' = "other" /\ probe' = NoProbe
       /\ UNCHANGED <<fvars, inits>>
       /\ cutOff' = Discards
       /\ clicks' = ClicksDown

\* The drag branch of the window's handleMouseMove: the selection moved
\* by the pointer's displacement, kept on the screen.
TranslatedIn(b, from, dx, dy) ==
    Rect(Max(0, Min(b.w - from.w, from.x + dx)),
         Max(0, Min(b.h - from.h, from.y + dy)), from.w, from.h)

Translated(from, dx, dy) == TranslatedIn(CaptureBounds, from, dx, dy)

\* The branch the window's handleMouseMove takes: the first of selecting,
\* dragging and resizing whose flags are set, and none when that one
\* returns because there are drawings.
WinMoveBranch ==
    IF isSelecting THEN "select"
    ELSE IF isDragging /\ dragStartSelection.some
    THEN IF hasFabricObjects(St) THEN "none" ELSE "drag"
    ELSE IF isResizing /\ dragStartSelection.some /\ resizeHandle # NoHandle
    THEN IF hasFabricObjects(St) THEN "none" ELSE "resize"
    ELSE "none"

\* The selection the branch gives for the pointer at pos.
WinMoved(pos) ==
    CASE WinMoveBranch = "select" ->
           Rect(Min(startPos[1], pos[1]), Min(startPos[2], pos[2]),
                Abs(pos[1] - startPos[1]), Abs(pos[2] - startPos[2]))
      [] WinMoveBranch = "drag" ->
           Translated(dragStartSelection, pos[1] - dragStartPos[1],
                      pos[2] - dragStartPos[2])
      [] WinMoveBranch = "resize" ->
           Resized(dragStartSelection, resizeHandle,
                   pos[1] - dragStartPos[1], pos[2] - dragStartPos[2])
      [] OTHER -> selection

\* The pointer moves and the window's handleMouseMove takes a branch: the
\* selection follows and the mask is drawn again. A drag or resize step
\* calls updateSelectionCanvasContent, which replaces the surface and
\* starts loading the new background.
WinMouseMove(c) ==
    LET sel == WinMoved(ToCanvasCoords(c))
    IN /\ Input
       /\ nMoves < MaxMoves
       /\ WinMoveBranch # "none"
       /\ selection' = sel /\ mask' = RenderMask(sel)
       /\ IF WinMoveBranch # "select" /\ hasCanvas
          THEN /\ inits < MaxPending
               /\ Commit(InitCanvas(St, sel.w, sel.h))
               /\ inits' = inits + 1
          ELSE UNCHANGED <<fvars, inits>>
       /\ nMoves' = nMoves + 1
       /\ UNCHANGED <<isSelecting, isDragging, isResizing, resizeHandle,
                      startPos, dragStartPos, dragStartSelection,
                      pointerDown, nSelections, gesture, lastOp, probe>>
       /\ cutOff' = Discards
       /\ clicks' = Unclicked

\* close(): the capture is hidden, the selection forgotten, the surface
\* reset; the mask is not drawn again.
\* resetSelection(): the selection and the flags of its gestures are
\* dropped, the surface reset, the mask drawn again.
\* Escape: resetSelection() with a selection, close() without one.
Escape ==
    /\ Step /\ isReady
    /\ Commit(resetSurface(St))
    /\ selection' = NoSelection
    /\ isSelecting' = (IF selection.some THEN FALSE ELSE isSelecting)
    /\ isDragging' = (IF selection.some THEN FALSE ELSE isDragging)
    /\ isResizing' = (IF selection.some THEN FALSE ELSE isResizing)
    /\ mask' = (IF selection.some THEN RenderMask(NoSelection) ELSE mask)
    /\ isReady' = selection.some
    /\ gesture' = [gesture EXCEPT !.clean = FALSE]
    /\ lastOp' = (IF selection.some THEN "reset" ELSE "close")
    /\ probe' = NoProbe
    /\ UNCHANGED <<inits, confirms, resizeHandle, startPos, dragStartPos,
                   dragStartSelection, pointerDown, nMoves, nSelections>>
    /\ cutOff' = Discards
    /\ clicks' = Unclicked

\* The pointer moves and no handler takes the move: nothing is being
\* drawn, Fabric drags nothing, the window's handleMouseMove takes no
\* branch.
PointerMove(p) ==
    /\ Input
    /\ nMoves < MaxMoves
    /\ WinMoveBranch = "none"
    /\ ~(hasCanvas /\ isDrawing /\ activeTool # NoTool)
    /\ ~(hasCanvas /\ OnCanvas(St, transform.target))
    /\ nMoves' = nMoves + 1
    /\ gesture' = IF pointerDown THEN [gesture EXCEPT !.last = p] ELSE gesture
    /\ UNCHANGED <<fvars, inits, wvars, pointerDown, nSelections, lastOp,
                   probe>>
    /\ cutOff' = Discards
    /\ clicks' = Unclicked

\* The objects canvas.toDataURL draws while toDataURL has the control
\* points of the table hidden: every other object of the canvas.
Visible(s) ==
    SelectSeq(s.objects, LAMBDA id : id \notin SeqSet(s.controlPoints.points))

\* toDataURL(format): the image, as the list of what is drawn in it (each
\* object as it is serialised). The control points are visible again
\* afterwards, and nothing else has been touched.
toDataURL(s) == [i \in 1..Len(Visible(s)) |-> ToObject(s.heap[Visible(s)[i]])]

\* confirmSelection() up to its first await: with a selection and a
\* surface the image is exported (which leaves the surface as it is) and
\* the host is asked to save it.
ConfirmSelection ==
    IF selection.some /\ hasCanvas /\ Len(confirms) < MaxConfirms
    THEN Append(confirms, [phase |-> "save", saved |-> FALSE,
                           image |-> toDataURL(St)])
    ELSE confirms

\* Enter, or the toolbar's confirm button.
Confirm ==
    /\ Step /\ isReady
    /\ selection.some /\ hasCanvas /\ Len(confirms) < MaxConfirms
    /\ confirms' = ConfirmSelection
    /\ lastOp' = "other" /\ probe' = NoProbe
    /\ UNCHANGED <<fvars, inits, wvars, isReady, pointerDown, nMoves,
                   nSelections, gesture>>
    /\ cutOff' = Discards
    /\ clicks' = Unclicked

\* A confirmSelection that closes whenever the host has not answered the
\* save with a path (not the program's).
Settled_ClosesOnFailure(phase, ok) ==
    IF phase = "save" /\ ok THEN "clipboard" ELSE "close"

\* What confirmSelection does when the host answers: after the save the
\* clipboard call, after the clipboard call the toast and close(), and the
\* toast of the catch block when either call failed.
Settled(phase, ok) ==
    IF ~ok THEN "toast"
    ELSE IF phase = "save" THEN "clipboard" ELSE "close"

\* The host answers the call the i-th confirmSelection waits for.
ConfirmStep(i, ok) ==
    /\ Step
    /\ i \in 1..Len(confirms)
    /\ LET next == Settled(confirms[i].phase, ok)
           rest == SubSeq(confirms, 1, i - 1)
                   \o SubSeq(confirms, i + 1, Len(confirms))
       IN /\ confirms' = IF next = "clipboard"
                         THEN [confirms EXCEPT ![i].phase = "clipboard",
                                               ![i].saved = TRUE]
                         ELSE rest
          /\ lastOp' = CASE next = "clipboard" -> "saved"
                         [] next = "close" -> "confirmed"
                         [] OTHER -> "failed"
          /\ IF next = "close"
             THEN /\ Commit(resetSurface(St))
                  /\ isReady' = FALSE /\ selection' = NoSelection
                  /\ gesture' = [gesture EXCEPT !.clean = FALSE]
             ELSE UNCHANGED <<fvars, isReady, selection, gesture>>
    /\ probe' = NoProbe
    /\ UNCHANGED <<inits, isSelecting, isDragging, isResizing, resizeHandle,
                   startPos, dragStartPos, dragStartSelection, mask,
                   pointerDown, nMoves, nSelections, clicks>>
    /\ cutOff' = Discards

\* The double click that follows two presses and releases in place.
\* handleDoubleClick leaves it to Fabric when an object is active (the
\* second press made the object under the pointer the active one), confirms
\* the selection when there is one with an area, and selects the whole
\* screen otherwise.
DoubleClick ==
    LET whole == Rect(0, 0, CaptureBounds.w, CaptureBounds.h)
        fabrics == hasCanvas /\ activeObject # 0
        confirming == selection.some /\ selection.w > 0 /\ selection.h > 0
    IN /\ Step /\ isReady
       /\ ~pointerDown /\ clicks.n = 2 /\ ~clicks.done
       /\ IF fabrics
          THEN UNCHANGED <<fvars, inits, selection, mask, confirms>>
          ELSE IF confirming
          THEN /\ confirms' = ConfirmSelection
               /\ UNCHANGED <<fvars, inits, selection, mask>>
          ELSE /\ inits < MaxPending
               /\ selection' = whole /\ mask' = RenderMask(whole)
               /\ Commit(InitCanvas(St, whole.w, whole.h))
               /\ inits' = inits + 1
               /\ UNCHANGED confirms
       /\ clicks' = [clicks EXCEPT !.done = TRUE]
       /\ lastOp' = "other" /\ probe' = NoProbe
       /\ UNCHANGED <<isReady, isSelecting, isDragging, isResizing,
                      resizeHandle, startPos, dragStartPos,
                      dragStartSelection, pointerDown, nMoves, nSelections,
                      gesture>>
       /\ cutOff' = Discards

\* A background image has loaded: renderSelectionCanvas or
\* updateSelectionCanvasContent finishes with resetHistory(); saveHistory().
InitDone ==
    /\ Tick
    /\ inits > 0
    /\ inits' = inits - 1
    /\ Commit(SaveHistory(ResetHistory(St)))
    /\ gesture' = [gesture EXCEPT !.clean = FALSE]
    /\ lastOp' = (IF inits = 1 THEN "init" ELSE "other") /\ probe' = NoProbe
    /\ UNCHANGED <<wvars, pointerDown, nMoves, nSelections>>
    /\ cutOff' = Discards
    /\ UNCHANGED clicks

Next ==
    \/ \E tool \in Tools : SelectTool(tool)
    \/ UndoClick
    \/ RedoClick
    \/ \E i \in 1..MaxPending, threw \in BOOLEAN : LoadResolve(i, threw)
    \/ \E p \in StartPts, target \in 0..(MaxObjects + 6) : MouseDown(p, target)
    \/ \E p \in MovePts : DrawMove(p)
    \/ \E d \in MoveDeltas : TransformMove(d)
    \/ \E t \in Texts : TypeText(t)
    \/ EnterEditing
    \/ MouseUp
    \/ \E c \in PressPts : WinMouseDown(c)
    \/ \E c \in ClientPts : WinMouseMove(c)
    \/ Escape
    \/ InitDone

Spec == Init /\ [][Next]_vars

SpecDrawn == InitDrawn /\ [][Next]_vars

\* A rectangle drawn from <<1, 1>> to the far corner of the surface is
\* selected, with its four handles shown.
InitRect ==
    /\ Surface(Drawn("rect"))
    /\ inits = 0
    /\ selection = Rect(0, 0, CaptureBounds.w, CaptureBounds.h)
    /\ isSelecting = FALSE /\ isResizing = FALSE
    /\ resizeHandle = NoHandle /\ startPos = <<0, 0>>
    /\ dragStartPos = <<0, 0>> /\ dragStartSelection = NoSelection
    /\ pointerDown = FALSE /\ nMoves = 0 /\ nSelections = 1
    /\ stepsLeft = MaxRectSteps
    /\ gesture = NoGesture /\ lastOp = "draw" /\ cutOff = 0
    /\ probe = NoProbe /\ calc = NoCalc
    /\ Opened /\ clicks = NoClicks

\* Presses on the rectangle, on its handles or beside them, drags that
\* take a handle across the rectangle, and releases.
NextRect ==
    \/ \E p \in StartPts, target \in 0..(MaxObjects + 6) : MouseDown(p, target)
    \/ \E d \in FlipDeltas : TransformMove(d)
    \/ MouseUp

SpecRect == InitRect /\ [][NextRect]_vars

\* ------------------------------------------------------------- properties

\* The button is released over the surface at the end of a drawing gesture
\* during which no restore completed and the surface was not replaced.
DrawUp ==
    /\ pointerDown /\ ~pointerDown'
    /\ hasCanvas /\ isDrawing /\ gesture.kind = "draw" /\ gesture.clean

\* C1 (as stated): a rect or ellipse gesture that ends less than 2 px from
\* its start in x or in y commits no shape, and the persistent object list
\* after pointer-up equals the list before pointer-down.
C1_AsStated ==
    [][(DrawUp /\ Tiny) => ShapeListOf(St)' = gesture.base]_vars

\* C1 (amended): a rect or ellipse gesture that ends less than 2 px from
\* its start in x or in y commits no shape; the persistent object list
\* after pointer-up is the list before pointer-down, less the text that was
\* active at pointer-down when that text was empty or whitespace-only (the
\* press deselects it, and deselecting removes it).
C1_TinyGestureCommitsNoShape ==
    [][(DrawUp /\ Tiny)
         => ShapeListOf(St)' = RemoveAt(gesture.base, gesture.blankAt)]_vars

\* C1 witness: a tiny rect / ellipse gesture has just ended on a surface
\* that holds a shape.
C1_Witness == lastOp = "tiny" /\ Len(Persistent) > 0

\* The pointer-up of a drawing gesture that commits a shape: the shape is
\* on the surface and is the active object.
ShapeCompleted == DrawUp /\ OnCanvas(St, activeObject)'

\* C2: every completed shape creation appends exactly one history entry (to
\* the log cut at the cursor), the snapshot of the surface, and leaves
\* historyIndex = historyLength - 1.
C2_CreationAppendsOneEntry ==
    [][ShapeCompleted
         => /\ history' = Append(Truncated(St), PersistentOf(St)')
            /\ historyIndex' = Len(history') - 1]_vars

\* C2 witness: a shape has just been committed by a drawing gesture and the
\* last entry of the log, under the cursor, is the snapshot holding it.
C2_Witness ==
    /\ lastOp = "draw" /\ OnCanvas(St, activeObject)
    /\ Len(history) > 0 /\ historyIndex = Len(history) - 1
    /\ history[Len(history)] = Persistent

\* C3 (as stated): a drawing gesture whose final createData result is
\* rejected commits nothing on pointer-up: the history log and the cursor
\* are unchanged, no object becomes the active object, and no transient or
\* control-point object remains on the surface.
C3_AsStated ==
    [][(DrawUp /\ gesture.rejected)
         => /\ history' = history /\ historyIndex' = historyIndex
            /\ activeObject' = 0
            /\ \A k \in 1..Len(objects') :
                  /\ ~heap'[objects'[k]].isControlPoint
                  /\ heap'[objects'[k]].evented]_vars

\* C4: when the last completed operation was a draw, a move or a resize,
\* an undo followed by a redo, each awaited to completion with nothing in
\* between, leaves the persistent object list equal to the list that was
\* on the surface just before the undo.
C4_UndoThenRedoRestoresList ==
    (probe.phase = "redone" /\ probe.op \in {"draw", "move", "resize"})
        => Persistent = probe.pre

\* C4 witness: an undo and a redo have completed after a resize, and the
\* list is the non-empty list that was there before the undo.
C4_Witness ==
    /\ probe.phase = "redone" /\ probe.op = "resize"
    /\ Len(probe.pre) > 0 /\ Persistent = probe.pre

\* C5: a saveHistory with the cursor at i < length - 1 discards the entries
\* after i and appends the new snapshot: the log becomes old[0..i] followed
\* by one entry, the cursor becomes i + 1 = length - 1, and redo is no
\* longer possible.
C5_PushAfterUndoTruncates ==
    [][(PushStep /\ historyIndex < Len(history) - 1)
         => /\ Len(history') = historyIndex + 2
            /\ SubSeq(history', 1, historyIndex + 1)
                 = SubSeq(history, 1, historyIndex + 1)
            /\ historyIndex' = historyIndex + 1
            /\ historyIndex' = Len(history') - 1
            /\ ~canRedo(St)']_vars

\* C5 witness: the last push cut entries off the log, and the cursor is on
\* the last entry.
C5_Witness ==
    /\ cutOff > 0 /\ Len(history) > 1
    /\ historyIndex = Len(history) - 1 /\ ~canRedo(St)

\* C6 (as stated): with a non-empty history 0 <= historyIndex <=
\* historyLength - 1; undo moves the cursor down by exactly one and redo up
\* by exactly one; undo at cursor <= 0 and redo at cursor = length - 1
\* leave surface and cursor unchanged; and neither undo nor redo, from the
\* click to the completion of its load, changes the number or the content
\* of the log entries.
C6_AsStated ==
    [][/\ Len(history') > 0
            => (0 <= historyIndex' /\ historyIndex' <= Len(history') - 1)
       /\ UndoClick => (historyIndex' = historyIndex - 1 /\ history' = history)
       /\ RedoClick => (historyIndex' = historyIndex + 1 /\ history' = history)
       /\ ~canUndo(St) => Undo(St) = St
       /\ ~canRedo(St) => Redo(St) = St
       /\ (\E i \in 1..Len(loads), threw \in BOOLEAN : LoadResolve(i, threw))
            => history' = history]_vars

\* The surface exists and every initialisation started for it has loaded
\* its background and finished.
InitsComplete == inits > 0 /\ inits' = 0

\* C7 (as stated): once all pending (re)initialisations of the surface have
\* completed, the history log holds exactly one baseline entry and
\* historyIndex = 0.
C7_AsStated ==
    [][InitsComplete => (Len(history') = 1 /\ historyIndex' = 0)]_vars

\* C7 (amended): once all pending (re)initialisations of the surface have
\* completed, and the surface has not been disposed of in the meantime, the
\* history log holds exactly one baseline entry and historyIndex = 0.
C7_InitLeavesOneBaseline ==
    [][(InitsComplete /\ hasCanvas')
         => (Len(history') = 1 /\ historyIndex' = 0)]_vars

\* C7 witness: the last initialisation of a surface that a resize step has
\* replaced has just completed, and the log is one entry under the cursor.
C7_Witness ==
    /\ lastOp = "init" /\ inits = 0 /\ hasCanvas
    /\ canvasW # CaptureBounds.w
    /\ Len(history) = 1 /\ historyIndex = 0

\* A snapshot load of undo or redo is pending on the surface.
PendingLoad == \E i \in 1..Len(loads) : ~loads[i].stale

\* C8 (as stated): while a snapshot load started by undo or redo is
\* pending, the loading guard is set, and nothing but the commit of a drawn
\* shape appends a history entry.
C8_AsStated ==
    [][/\ PendingLoad' => isLoadingHistory'
       /\ (PendingLoad /\ ~ShapeCompleted) => ~PushStep]_vars

\* C9: no history entry contains a control point.
C9_NoControlPointInHistory ==
    \A e \in 1..Len(history) :
        \A k \in 1..Len(history[e]) : ~history[e][k].isControlPoint

\* C9 witness: a control point is the active object at the end of a resize,
\* whose snapshot is the last entry of the log.
C9_Witness ==
    /\ lastOp = "resize" /\ OnCanvas(St, activeObject)
    /\ heap[activeObject].isControlPoint
    /\ Len(history) > 1 /\ history[Len(history)] = Persistent

\* C10: a text made on the surface (not restored from a snapshot) whose
\* content is empty or whitespace-only is on the surface only while it is
\* the active object: deselecting it removes it from the persistent list.
C10_EmptyTextGoesWhenDeselected ==
    \A k \in 1..Len(objects) :
        (/\ IsText(heap[objects[k]]) /\ heap[objects[k]].evented
         /\ ~heap[objects[k]].enlivened
         /\ TrimIsEmpty(heap[objects[k]].text))
            => objects[k] = activeObject

\* C10 witness: the last snapshot, pushed when a text was created by a
\* click, holds the text still empty; the text has been deselected since,
\* nothing is active and the persistent list is empty.
C10_Witness ==
    /\ hasCanvas /\ loads = <<>> /\ activeObject = 0 /\ Persistent = <<>>
    /\ Len(history) > 0 /\ historyIndex = Len(history) - 1
    /\ Len(history[Len(history)]) = 1
    /\ history[Len(history)][1].kind = "i-text"
    /\ TrimIsEmpty(history[Len(history)][1].text)

\* The position handle `pid` of a rect denotes by its name, on the path the
\* rect is drawn with.
NamedCorner(data, pid) ==
    <<IF pid \in {"tl", "bl"} THEN BuildRectPathData(data).left
                              ELSE BuildRectPathData(data).right,
      IF pid \in {"tl", "tr"} THEN BuildRectPathData(data).top
                              ELSE BuildRectPathData(data).bottom>>

\* The rect whose handles are shown, 0 when there is none.
HandledRect ==
    IF OnCanvas(St, controlPoints.shape)
       /\ heap[controlPoints.shape].shapeData.type = "rect"
    THEN controlPoints.shape ELSE 0

\* C11: whatever handles of a rectangle have been dragged, and wherever
\* (past the opposite corner too), after release the rectangle's extents
\* are non-negative, the rectangle sits at the top-left corner of its
\* path, and every handle is at the corner its name denotes.
C11_RectHandlesStayNamedCorners ==
    (~pointerDown /\ HandledRect # 0) =>
        LET data == heap[HandledRect].shapeData
            path == BuildRectPathData(data)
        IN /\ path.right - path.left >= 0 /\ path.bottom - path.top >= 0
           /\ heap[HandledRect].left = path.left
           /\ heap[HandledRect].top = path.top
           /\ Len(controlPoints.points) = 4
           /\ \A k \in 1..Len(controlPoints.points) :
                LET c == heap[controlPoints.points[k]]
                IN <<c.left, c.top>> = NamedCorner(data, c.pointId)

\* C11 witness: a handle has been dragged past the opposite corner in both
\* axes and released; the stored endpoints are in reverse order.
C11_Witness ==
    /\ ~pointerDown /\ HandledRect # 0 /\ lastOp = "resize"
    /\ heap[HandledRect].shapeData.pts[1][1]
         > heap[HandledRect].shapeData.pts[2][1]
    /\ heap[HandledRect].shapeData.pts[1][2]
         > heap[HandledRect].shapeData.pts[2][2]


(***************************************************************************)
(* move on its own: the five handlers' move applied to shape data drawn    *)
(* from bounded sets, there and back.                                      *)
(***************************************************************************)

\* One whole pixel, counted in the smallest fraction in use.
Whole == Pow2(FracBits)

\* Coordinates: a fraction of a pixel, one pixel, three pixels.
MoveCoords == {1, Whole, 3 * Whole}
MovePoints == MoveCoords \X MoveCoords

\* Displacements, whole pixels every one of them.
MoveBys == {0, 3 * Whole, 16 * Whole, -(16 * Whole)}

MoveInputs ==
    {[type |-> t, pts |-> <<a, b>>, text |-> "", fontSize |-> 0] :
        t \in {"rect", "ellipse", "arrow", "pen"}, a \in MovePoints,
        b \in {<<Whole, Whole>>, <<1, 3 * Whole>>}}
    \cup {[type |-> "text", pts |-> <<a>>, text |-> "a", fontSize |-> 16] :
             a \in MovePoints}

InitMove ==
    /\ Surface(InitSt)
    /\ inits = 0
    /\ selection = NoSelection /\ isSelecting = FALSE /\ isResizing = FALSE
    /\ resizeHandle = NoHandle /\ startPos = <<0, 0>>
    /\ dragStartPos = <<0, 0>> /\ dragStartSelection = NoSelection
    /\ pointerDown = FALSE /\ nMoves = 0 /\ nSelections = 0
    /\ stepsLeft = 0
    /\ gesture = NoGesture /\ lastOp = "other" /\ cutOff = 0
    /\ probe = NoProbe
    /\ Opened /\ clicks = NoClicks
    /\ \E d \in MoveInputs, dx \in MoveBys, dy \in MoveBys :
          calc = [stage |-> "input", data |-> d, dx |-> dx, dy |-> dy,
                  result |-> d]

\* handler.move(data, dx, dy)
MoveThere ==
    /\ calc.stage = "input"
    /\ calc' = [calc EXCEPT !.stage = "there",
                            !.result = MoveData(calc.data, calc.dx, calc.dy)]
    /\ UNCHANGED <<ovars, screens>>

\* handler.move(moved, -dx, -dy)
MoveBack ==
    /\ calc.stage = "there"
    /\ calc' = [calc EXCEPT !.stage = "back",
                            !.result = MoveData(calc.result, -calc.dx, -calc.dy)]
    /\ UNCHANGED <<ovars, screens>>

NextMove == MoveThere \/ MoveBack

SpecMove == InitMove /\ [][NextMove]_vars

WholePixels(data) ==
    \A i \in 1..Len(data.pts) :
        data.pts[i][1] % Whole = 0 /\ data.pts[i][2] % Whole = 0

StartBoxes ==
    { Rect(4, 2, 30, 26), Rect(10, 8, 20, 14),
      Rect(0, 0, CaptureBounds.w, CaptureBounds.h) }

\* Client positions of presses (on the corners, on the edges, beside them)
\* and of the drags that follow.
ResizePressPts ==
    { <<2, 1>>, <<17, 1>>, <<2, 14>>, <<17, 14>>,
      <<2, 7>>, <<17, 7>>, <<9, 1>>, <<9, 14>>,
      <<5, 4>>, <<15, 4>>, <<5, 11>>, <<15, 11>>,
      <<0, 0>>, <<20, 0>>, <<0, 15>>, <<20, 15>>,
      <<0, 7>>, <<20, 7>>, <<10, 0>>, <<10, 15>> }
ResizeMovePts ==
    { <<-250, -250>>, <<250, 250>>, <<-250, 7>>, <<6, 11>>, <<20, 15>> }

InitResize ==
    /\ \E box \in StartBoxes :
          /\ Surface(SaveHistory(ResetHistory(
                        InitCanvas(InitSt, box.w, box.h))))
          /\ selection = box
    /\ inits = 0
    /\ isSelecting = FALSE /\ isResizing = FALSE
    /\ resizeHandle = NoHandle /\ startPos = <<0, 0>>
    /\ dragStartPos = <<0, 0>> /\ dragStartSelection = NoSelection
    /\ pointerDown = FALSE /\ nMoves = 0 /\ nSelections = 1
    /\ stepsLeft = MaxResizeSteps
    /\ gesture = NoGesture /\ lastOp = "init" /\ cutOff = 0
    /\ probe = NoProbe /\ calc = NoCalc
    /\ Opened /\ clicks = NoClicks

NextResize ==
    \/ \E c \in ResizePressPts : WinMouseDown(c)
    \/ \E c \in ResizeMovePts : WinMouseMove(c)
    \/ MouseUp
    \/ InitDone

SpecResize == InitResize /\ [][NextResize]_vars

\* A resize step has been taken in the running gesture.
ResizeStepped == isResizing /\ nMoves > 0 /\ dragStartSelection.some

\* The screen of the example: 1920 x 1080.
ExampleBounds == [w |-> 1920, h |-> 1080]

\* C13: for every resize handle and every pointer position, positions far
\* outside the screen included, a resize step that starts from a box inside
\* the capture bounds gives x >= 0, y >= 0, w >= 0, h >= 0, x + w <= bounds.w
\* and y + h <= bounds.h; the box (100, 100, 50, 50) with its nw handle
\* dragged to (-500, -500) gets x = 0 and y = 0.
C13_ResizeStaysInsideBounds ==
    /\ ResizeStepped =>
          /\ selection.x >= 0 /\ selection.y >= 0
          /\ selection.w >= 0 /\ selection.h >= 0
          /\ selection.x + selection.w <= CaptureBounds.w
          /\ selection.y + selection.h <= CaptureBounds.h
    /\ LET box == ResizedIn(ExampleBounds, Rect(100, 100, 50, 50), "nw",
                            -500 - 100, -500 - 100)
       IN box.x = 0 /\ box.y = 0

C13_Witness ==
    /\ ResizeStepped /\ resizeHandle = "nw"
    /\ dragStartSelection = Rect(10, 8, 20, 14)
    /\ selection.x = 0 /\ selection.y = 0
    /\ selection.w = CaptureBounds.w /\ selection.h = CaptureBounds.h

EdgesX(sel) == {sel.x, sel.x + sel.w}
EdgesY(sel) == {sel.y, sel.y + sel.h}

\* C14 as stated: a resize step moves only the edges of the dragged handle.
\* An edge handle leaves the other axis as it was, and for every handle
\* the opposite edges are still edges of the box at the coordinate they had
\* when the drag started, also when the dragged edge is clamped.
C14_AsStated ==
    ResizeStepped =>
       LET from == dragStartSelection
       IN /\ resizeHandle \in {"n", "s"}
                => selection.x = from.x /\ selection.w = from.w
          /\ resizeHandle \in {"e", "w"}
                => selection.y = from.y /\ selection.h = from.h
          /\ resizeHandle \in {"nw", "sw", "w"}
                => from.x + from.w \in EdgesX(selection)
          /\ resizeHandle \in {"ne", "se", "e"}
                => from.x \in EdgesX(selection)
          /\ resizeHandle \in {"nw", "ne", "n"}
                => from.y + from.h \in EdgesY(selection)
          /\ resizeHandle \in {"sw", "se", "s"}
                => from.y \in EdgesY(selection)


(***************************************************************************)
(* The capture session: from the window as it opens, and from a first      *)
(* shape on the whole screen, with the double click, the confirmation and  *)
(* the moves of the pointer that nothing takes.                            *)
(***************************************************************************)

\* One point of the screen, as the window and as the surface of a selection
\* of the whole screen see it; where selection drags go from there (to a
\* box of 4 x 4 and to one of 24 x 16).
SessionPressPts == { <<8, 7>> }
SessionStartPts == { <<16, 14>> }
SessionMovePts == { <<10, 9>>, <<20, 15>> }

\* A selection that leaves room on every side, with its empty surface.
SessionBox == Rect(4, 2, 30, 26)

InitSession ==
    /\ \/ /\ Surface(InitSt)
          /\ selection = NoSelection /\ nSelections = 0 /\ lastOp = "other"
       \/ /\ Surface(SaveHistory(ResetHistory(
                        InitCanvas(InitSt, SessionBox.w, SessionBox.h))))
          /\ selection = SessionBox /\ nSelections = 1 /\ lastOp = "init"
       \/ /\ \E tool \in Tools : Surface(Drawn(tool))
          /\ selection = Rect(0, 0, CaptureBounds.w, CaptureBounds.h)
          /\ nSelections = 1 /\ lastOp = "draw"
    /\ inits = 0
    /\ isSelecting = FALSE /\ isResizing = FALSE
    /\ resizeHandle = NoHandle /\ startPos = <<0, 0>>
    /\ dragStartPos = <<0, 0>> /\ dragStartSelection = NoSelection
    /\ pointerDown = FALSE /\ nMoves = 0
    /\ stepsLeft = MaxSessionSteps
    /\ gesture = NoGesture /\ cutOff = 0
    /\ probe = NoProbe /\ calc = NoCalc
    /\ Opened /\ clicks = [NoClicks EXCEPT !.counted = TRUE]

NextSession ==
    \/ \E tool \in Tools : SelectTool(tool)
    \/ \E p \in SessionStartPts, target \in 0..(MaxObjects + 6) :
          MouseDown(p, target)
    \/ \E p \in MovePts : DrawMove(p)
    \/ \E d \in MoveDeltas : TransformMove(d)
    \/ \E p \in MovePts : PointerMove(p)
    \/ MouseUp
    \/ \E c \in SessionPressPts : WinMouseDown(c)
    \/ \E c \in SessionMovePts : WinMouseMove(c)
    \/ DoubleClick
    \/ Confirm
    \/ \E i \in 1..MaxConfirms, ok \in BOOLEAN : ConfirmStep(i, ok)
    \/ Escape
    \/ InitDone

SpecSession == InitSession /\ [][NextSession]_vars


WholeScreen == Rect(0, 0, CaptureBounds.w, CaptureBounds.h)

\* C15 as stated: a drag with the pointer pressed inside an existing
\* selection (on no handle, here on the blank surface with no tool chosen)
\* translates the box by the displacement of the pointer, w and h kept, x
\* clamped to [0, bounds.w - w] and y to [0, bounds.h - h].
PressedAt == <<selection.x + gesture.last[1], selection.y + gesture.last[2]>>

C15_AsStated ==
    [][(/\ pointerDown /\ pointerDown' /\ gesture.kind = "drag"
        /\ activeTool = NoTool /\ transform.target = 0
        /\ isInsideSelection(selection, PressedAt)
        /\ getResizeHandle(selection, PressedAt) = NoHandle
        /\ nMoves = 0 /\ nMoves' = 1)
       => selection' = Translated(selection,
                                  gesture'.last[1] - gesture.last[1],
                                  gesture'.last[2] - gesture.last[2])]_vars

\* C16: when a selection drag ends with w < 10 or h < 10 the small box does
\* not stay: after the release there is no selection or the selection is
\* the whole screen; and whatever the mask shows with a border and handles
\* has an area.
C16_SmallSelectionDoesNotStay ==
    [][/\ (/\ isSelecting /\ pointerDown /\ ~pointerDown'
           /\ (selection.w < MinSelectionSide
               \/ selection.h < MinSelectionSide))
          => (~selection'.some \/ selection' = WholeScreen)
       /\ mask'.some => (mask'.w > 0 /\ mask'.h > 0)]_vars

C16_Witness ==
    /\ ~pointerDown /\ selection = WholeScreen /\ mask = WholeScreen
    /\ startPos = <<16, 14>> /\ clicks.n = 0
    /\ stepsLeft = MaxSessionSteps - 3 /\ inits = 1
    /\ nMoves = 0 /\ activeTool = NoTool /\ confirms = <<>>

\* C17 as stated: a double click made while there is no selection (press,
\* release, press, release, double click) ends with the whole screen
\* selected and the session still open.
C17_AsStated ==
    (clicks.done /\ clicks.bare) => (isReady /\ selection = WholeScreen)

\* What resetSelection leaves.
ResetState ==
    /\ ~selection.some
    /\ ~isSelecting /\ ~isDragging /\ ~isResizing
    /\ activeTool = NoTool /\ ~hasCanvas
    /\ history = <<>> /\ historyIndex = -1

C19_MoveAfterReleaseChangesNothing ==
    [][(~pointerDown /\ nMoves' = nMoves + 1)
       => (UNCHANGED fvars /\ selection' = selection /\ mask' = mask)]_vars

C19_Witness ==
    /\ ~pointerDown /\ nMoves = MaxMoves /\ lastOp = "draw"
    /\ Len(objects) > 1 /\ stepsLeft < MaxSessionSteps - 4

\* C20: when the host fails to save the image or to set the clipboard, the
\* session stays open and the selection, the surface and the history stay
\* as they are; the session is closed by a confirmation only when the host
\* has answered the clipboard call that was made with the saved path.
C20_FailedConfirmChangesNothing ==
    [][/\ (Len(confirms') < Len(confirms) /\ lastOp' = "failed")
          => (isReady' = isReady /\ selection' = selection
              /\ UNCHANGED fvars)
       /\ (isReady /\ ~isReady' /\ lastOp' # "close")
          => (/\ lastOp' = "confirmed"
              /\ \E i \in 1..Len(confirms) :
                    /\ confirms[i].phase = "clipboard" /\ confirms[i].saved
                    /\ Len(confirms') = Len(confirms) - 1)]_vars

C20_Witness ==
    /\ lastOp = "failed" /\ isReady /\ confirms = <<>>
    /\ selection = WholeScreen /\ Len(history) = 2 /\ Len(objects) > 0


\* ------------------------------------------------- createData on its own

\* Where a gesture starts, and how far from it the pointer is: extents of
\* 0 to 5 pixels, to either side.
CreateStart == <<10, 10>>
CreateOffsets == {-5, -4, -2, 0, 1, 2, 3, 4, 5}
CreateCurrents ==
    {<<CreateStart[1] + dx, CreateStart[2] + dy>> :
        dx \in CreateOffsets, dy \in CreateOffsets}

\* The points handed to createData: none, one, two.
CreatePointLists == { <<>>, <<CreateStart>>, <<CreateStart, <<12, 13>>>> }

\* `points || [start, current]` of PenHandler.createData: the points given,
\* the two of the gesture when the argument is left out.
AllPoints(start, current, points, given) ==
    IF given THEN points ELSE <<start, current>>

InitCreate ==
    /\ Surface(InitSt)
    /\ inits = 0
    /\ selection = NoSelection /\ isSelecting = FALSE /\ isResizing = FALSE
    /\ resizeHandle = NoHandle /\ startPos = <<0, 0>>
    /\ dragStartPos = <<0, 0>> /\ dragStartSelection = NoSelection
    /\ pointerDown = FALSE /\ nMoves = 0 /\ nSelections = 0
    /\ stepsLeft = 0
    /\ gesture = NoGesture /\ lastOp = "other" /\ cutOff = 0
    /\ probe = NoProbe
    /\ Opened /\ clicks = NoClicks
    /\ \E tool \in Tools, c \in CreateCurrents, pts \in CreatePointLists,
          given \in BOOLEAN :
          calc = [stage |-> "input", tool |-> tool, start |-> CreateStart,
                  current |-> c, points |-> pts, given |-> given,
                  result |-> NoData]

\* handler.createData(start, current, points)
Create ==
    /\ calc.stage = "input"
    /\ calc' = [calc EXCEPT
                  !.stage = "created",
                  !.result = CreateData(calc.tool, calc.start, calc.current,
                                        AllPoints(calc.start, calc.current,
                                                  calc.points, calc.given))]
    /\ UNCHANGED <<ovars, screens>>

NextCreate == Create

SpecCreate == InitCreate /\ [][NextCreate]_vars

ExtentX == Abs(calc.current[1] - calc.start[1])
ExtentY == Abs(calc.current[2] - calc.start[2])

\* What createData returns for the tools other than the ellipse, as the
\* claim C24 states it.
CreatesAsStated ==
    /\ calc.tool = "rect"
          => (calc.result = Rejected <=> (ExtentX < 2 \/ ExtentY < 2))
    /\ calc.tool = "arrow"
          => (calc.result = Rejected <=> (ExtentX < 5 /\ ExtentY < 5))
    /\ calc.tool = "pen"
          => (calc.result = Rejected
                <=> Len(AllPoints(calc.start, calc.current, calc.points,
                                  calc.given)) < 2)
    /\ calc.tool = "text" => calc.result # Rejected
    /\ (calc.tool \in {"rect", "ellipse", "arrow"} /\ calc.result # Rejected)
          => calc.result = Shape2(calc.tool, calc.start, calc.current)

\* C24 as stated: createData rejects a rect and an ellipse iff |dx| < 2 or
\* |dy| < 2, an arrow iff |dx| < 5 and |dy| < 5, a pen iff it has fewer than
\* 2 points, a text never; an accepted rect, ellipse or arrow stores start
\* and current as they are given.
C24_AsStated ==
    calc.stage = "created"
       => /\ CreatesAsStated
          /\ calc.tool = "ellipse"
                => (calc.result = Rejected <=> (ExtentX < 2 \/ ExtentY < 2))

\* C24 amended: as stated, but an ellipse is rejected iff one of its radii,
\* half of |dx| and half of |dy|, is below 2, that is iff |dx| < 4 or
\* |dy| < 4.
C24_CreateDataRejectsBelowMinimum ==
    calc.stage = "created"
       => /\ CreatesAsStated
          /\ calc.tool = "ellipse"
                => (calc.result = Rejected <=> (ExtentX < 4 \/ ExtentY < 4))

C24_Witness ==
    /\ calc.stage = "created" /\ calc.tool = "ellipse"
    /\ ExtentX = 3 /\ ExtentY = 5 /\ calc.result = Rejected


\* ------------------------------------------------ a session with styles

\* The window after a first shape has been drawn, as in InitDrawn.
InitStyle ==
    /\ \E tool \in Tools : Surface(Drawn(tool))
    /\ inits = 0
    /\ selection = Rect(0, 0, CaptureBounds.w, CaptureBounds.h)
    /\ isSelecting = FALSE /\ isResizing = FALSE
    /\ resizeHandle = NoHandle /\ startPos = <<0, 0>>
    /\ dragStartPos = <<0, 0>> /\ dragStartSelection = NoSelection
    /\ pointerDown = FALSE /\ nMoves = 0 /\ nSelections = 1
    /\ stepsLeft = MaxStyleSteps
    /\ gesture = NoGesture /\ lastOp = "draw" /\ cutOff = 0
    /\ probe = NoProbe /\ calc = NoCalc
    /\ Opened /\ clicks = NoClicks

NextStyle ==
    \/ \E color \in Colors : StrokeColor(color)
    \/ \E w \in Widths : StrokeWidth(w)
    \/ \E tool \in Tools : SelectTool(tool)
    \/ UndoClick
    \/ RedoClick
    \/ \E i \in 1..MaxPending, threw \in BOOLEAN : LoadResolve(i, threw)
    \/ \E p \in StartPts, target \in 0..(MaxObjects + 6) : MouseDown(p, target)
    \/ \E p \in MovePts : DrawMove(p)
    \/ \E d \in MoveDeltas : TransformMove(d)
    \/ \E t \in Texts : TypeText(t)
    \/ EnterEditing
    \/ MouseUp

SpecStyle == InitStyle /\ [][NextStyle]_vars

\* The shape the user sees selected: the active object, or the shape whose
\* handles are shown when one of the handles is the active object.
SelectedShape ==
    IF activeObject # 0 /\ heap[activeObject].isControlPoint
    THEN controlPoints.shape ELSE activeObject

\* The style change of this step has been applied to the selected shape.
StyleApplied ==
    LET old == heap[SelectedShape].style
        new == heap'[SelectedShape'].style
    IN IF lastOp' = "colour"
       THEN IF IsText(heap[SelectedShape])
            THEN new = [old EXCEPT !.fill = drawingConfig'.strokeColor]
            ELSE new = [old EXCEPT !.stroke = drawingConfig'.strokeColor]
       ELSE IF IsText(heap[SelectedShape])
            THEN new = [old EXCEPT
                          !.fontSize = FontSizeOf(drawingConfig'.strokeWidth)]
            ELSE new = [old EXCEPT
                          !.strokeWidth = drawingConfig'.strokeWidth]

\* C21 as stated: a change of the stroke colour or of the stroke width made
\* while a shape is selected is applied to that shape (a text takes the
\* colour as its fill and the width w as the font size 16 + (w - 1) * 4,
\* its stroke width untouched) and appends exactly one history entry; with
\* no active object it changes the drawing config only and appends none.
C21_AsStated ==
    [][(lastOp' \in {"colour", "width"} /\ stepsLeft' = stepsLeft - 1)
       => IF activeObject = 0
          THEN history' = history /\ historyIndex' = historyIndex
               /\ heap' = heap
          ELSE /\ SelectedShape # 0 => StyleApplied
               /\ Len(history') = historyIndex + 2
               /\ historyIndex' = historyIndex + 1]_vars


\* C22 as stated: when the surface is exported no control point is in the
\* image and no shape in it carries the dashed outline of a selected shape;
\* the export leaves the shapes, the control points, the selection and the
\* history as they were.
C22_AsStated ==
    [][Len(confirms') > Len(confirms)
       => /\ \A i \in 1..Len(confirms'[Len(confirms')].image) :
                /\ ~confirms'[Len(confirms')].image[i].isControlPoint
                /\ ~confirms'[Len(confirms')].image[i].dashed
          /\ UNCHANGED fvars /\ selection' = selection]_vars


\* The tags of a list of serialised objects are the ones they were created
\* with.
TagsKept(list) ==
    \A j \in 1..Len(list) :
        ~list[j].isControlPoint => list[j].shapeData.type = list[j].madeAs

\* C25: a shape's type tag never changes after creation: on the surface
\* and in every history entry, through moves, control-point drags, text
\* edits, style changes, undo and redo, shapeData.type of every shape is
\* the tag the shape was created with.
C25_TypeTagNeverChanges ==
    /\ \A id \in DOMAIN heap :
          ~heap[id].isControlPoint
              => heap[id].shapeData.type = heap[id].madeAs
    /\ \A k \in 1..Len(history) : TagsKept(history[k])

\* A shape other than a freehand stroke has been reshaped by a handle and
\* the gesture has been recorded.
C25_Witness ==
    /\ lastOp = "resize" /\ Len(history) >= 2
    /\ \E id \in SeqSet(objects) :
          ~heap[id].isControlPoint /\ heap[id].madeAs \in {"rect", "arrow"}

\* The persistent objects of the surface themselves, in stacking order.
PersistentIds(s) ==
    SelectSeq(s.objects, LAMBDA id : ~s.heap[id].isControlPoint)

\* An intermediate move of a gesture that drags a shape or a handle.
DragStep ==
    /\ gesture.kind = "drag" /\ hasCanvas /\ OnCanvas(St, transform.target)
    /\ nMoves' = nMoves + 1

\* The release that ends such a gesture after at least one move, no
\* restore pending.
DragUp == pointerDown /\ ~pointerDown' /\ lastOp' \in {"move", "resize"}

DisplayedControls == {id \in SeqSet(objects) : heap[id].isControlPoint}

\* C27 as stated: whenever control points are displayed they are the ones
\* of the table, the shape of the table is on the surface and is the
\* selected shape, and every control point is where its definition's
\* getPosition puts it for the shape's current shapeData.
C27_AsStated ==
    \A id \in DisplayedControls :
        /\ id \in SeqSet(controlPoints.points)
        /\ OnCanvas(St, controlPoints.shape)
        /\ SelectedShape = controlPoints.shape
        /\ <<heap[id].left, heap[id].top>>
             = GetPosition(heap[controlPoints.shape].shapeData,
                           heap[id].pointId)

\* What a list of serialised objects shows: which shapes, with which data
\* and which text, whatever their selection styling.
Shown(list) ==
    [i \in 1..Len(list) |->
        [kind |-> list[i].kind, shapeData |-> list[i].shapeData,
         text |-> list[i].text]]

\* No gesture in progress, no text being edited, no snapshot load and no
\* background load pending, on a surface with a history.
Quiescent ==
    /\ hasCanvas /\ history # <<>>
    /\ ~pointerDown /\ ~isDrawing
    /\ loads = <<>> /\ ~isLoadingHistory /\ inits = 0
    /\ \A id \in SeqSet(objects) : ~heap[id].isEditing

\* C28 as stated: in every quiescent state the persistent object list of
\* the surface is the snapshot stored at history[historyIndex].
C28_AsStated ==
    Quiescent => Shown(Persistent) = Shown(history[historyIndex + 1])

\* Undo and redo alone, after a first shape: the buttons are clicked in any
\* order, also before the loads of earlier clicks have resolved, and the
\* loads resolve in any order.
NextRestore ==
    \/ UndoClick
    \/ RedoClick
    \/ \E i \in 1..MaxPending, threw \in BOOLEAN : LoadResolve(i, threw)

SpecRestore == InitDrawn /\ [][NextRestore]_vars

\* C29 as stated: however undo and redo calls overlap and in whichever
\* order their loads resolve, once all loads have completed the surface
\* shows the snapshot at history[historyIndex].
C29_AsStated ==
    (hasCanvas /\ loads = <<>>)
        => Shown(Persistent) = Shown(history[historyIndex + 1])

\* C30 as stated: once the background of the surface has loaded, the
\* baseline history entry (index 0) has an empty shape list, also when a
\* shape was drawn between the creation of the surface and the end of the
\* load.
C30_AsStated ==
    (hasCanvas /\ inits = 0 /\ history # <<>>) => history[1] = <<>>

\* ------------------------------------------------------------------------
\* Several screens: one capture window per screen, each with its own screen
\* id, and the `selection-started` notifications between them. Nothing is
\* drawn in these windows, so none has Fabric objects, an active object or
\* a hit target.

MaxScreenSteps == 8
MaxNotes == 4

ScreenIds == {1, 2}
ScreenPts == { <<8, 7>>, <<20, 15>> }

\* A window as mounted: no selection, no gesture, no surface.
NoWindow ==
    [selection |-> NoSelection, isSelecting |-> FALSE, isDragging |-> FALSE,
     isResizing |-> FALSE, resizeHandle |-> NoHandle, startPos |-> <<0, 0>>,
     dragStartPos |-> <<0, 0>>, dragStartSelection |-> NoSelection,
     hasCanvas |-> FALSE]

\* emit("selection-started", { id }): every window listens, the sender's
\* own included.
Emitted(notes, id) ==
    notes \o [k \in 1..Cardinality(ScreenIds) |-> [id |-> id, to |-> k]]

\* The window's handleMouseDown on a window record; emits: it reaches the
\* branch that starts a new selection. A press on the upper canvas is one
\* inside the selection and changes as little.
ScreenEmits(w, pos) == ~w.selection.some

ScreenMouseDown(w, pos) ==
    IF w.selection.some
    THEN IF isInsideSelection(w.selection, pos) THEN w
         ELSE IF getResizeHandle(w.selection, pos) # NoHandle
         THEN [w EXCEPT !.isResizing = TRUE,
                        !.resizeHandle = getResizeHandle(w.selection, pos),
                        !.dragStartPos = pos,
                        !.dragStartSelection = w.selection]
         ELSE w
    ELSE [w EXCEPT !.isSelecting = TRUE, !.startPos = pos,
                   !.selection = Rect(pos[1], pos[2], 0, 0)]

\* The window's handleMouseMove on a window record.
ScreenMouseMove(w, pos) ==
    IF w.isSelecting
    THEN [w EXCEPT !.selection =
              Rect(Min(w.startPos[1], pos[1]), Min(w.startPos[2], pos[2]),
                   Abs(pos[1] - w.startPos[1]), Abs(pos[2] - w.startPos[2]))]
    ELSE IF w.isDragging /\ w.dragStartSelection.some
    THEN [w EXCEPT !.selection =
              Translated(w.dragStartSelection, pos[1] - w.dragStartPos[1],
                         pos[2] - w.dragStartPos[2])]
    ELSE IF w.isResizing /\ w.dragStartSelection.some
            /\ w.resizeHandle # NoHandle
    THEN [w EXCEPT !.selection =
              Resized(w.dragStartSelection, w.resizeHandle,
                      pos[1] - w.dragStartPos[1], pos[2] - w.dragStartPos[2])]
    ELSE w

\* The window's handleMouseUp on a window record.
ScreenMouseUp(w) ==
    [w EXCEPT !.isSelecting = FALSE, !.isDragging = FALSE,
              !.isResizing = FALSE, !.resizeHandle = NoHandle,
              !.dragStartSelection = NoSelection,
              !.selection =
                  IF w.isSelecting /\ w.selection.some
                     /\ (w.selection.w < MinSelectionSide
                         \/ w.selection.h < MinSelectionSide)
                  THEN WholeScreen ELSE w.selection,
              !.hasCanvas = IF w.isSelecting /\ w.selection.some
                            THEN TRUE ELSE w.hasCanvas]

\* handleDoubleClick on a window record; confirms: it is the branch that
\* calls confirmSelection(), which goes on to close the capture when there
\* is a surface to export.
ScreenConfirms(w) ==
    w.selection.some /\ w.selection.w > 0 /\ w.selection.h > 0

ScreenDoubleClick(w) ==
    IF ScreenConfirms(w) THEN w
    ELSE [w EXCEPT !.selection = WholeScreen, !.hasCanvas = TRUE]

\* resetSelection() on a window record.
ScreenReset(w) ==
    [w EXCEPT !.selection = NoSelection, !.isSelecting = FALSE,
              !.isDragging = FALSE, !.isResizing = FALSE,
              !.hasCanvas = FALSE]

\* The listener of `selection-started` in window `to`.
Listened(w, note) == IF note.id # note.to THEN ScreenReset(w) ELSE w

\* Both windows mounted, or the first already holding the whole screen with
\* its notifications long delivered; the pointer is up.
InitScreens ==
    /\ Surface(InitSt)
    /\ inits = 0
    /\ selection = NoSelection /\ isSelecting = FALSE /\ isResizing = FALSE
    /\ resizeHandle = NoHandle /\ startPos = <<0, 0>>
    /\ dragStartPos = <<0, 0>> /\ dragStartSelection = NoSelection
    /\ pointerDown = FALSE /\ nMoves = 0 /\ nSelections = 0
    /\ stepsLeft = 0
    /\ gesture = NoGesture /\ lastOp = "other" /\ cutOff = 0
    /\ probe = NoProbe /\ calc = NoCalc
    /\ OpenedWindow /\ clicks = NoClicks
    /\ \E first \in {NoWindow, [NoWindow EXCEPT !.selection = WholeScreen,
                                                !.hasCanvas = TRUE]} :
         screens = [NoScreens EXCEPT
                      !.win = [i \in ScreenIds |->
                                 IF i = 1 THEN first ELSE NoWindow],
                      !.steps = MaxScreenSteps]

\* One more event in the windows, while the capture is open.
ScreenStep == screens.left = 0 /\ screens.steps > 0

\* A press in window i.
ScreenDown(i, pos) ==
    /\ ScreenStep
    /\ screens.held = 0
    /\ ScreenEmits(screens.win[i], pos)
         => Len(screens.notes) + Cardinality(ScreenIds) <= MaxNotes
    /\ screens' =
         [screens EXCEPT
            !.win[i] = ScreenMouseDown(screens.win[i], pos),
            !.notes = IF ScreenEmits(screens.win[i], pos)
                      THEN Emitted(screens.notes, i) ELSE screens.notes,
            !.held = i,
            !.clicks = IF screens.clicks.at = i /\ screens.clicks.pos = pos
                       THEN screens.clicks
                       ELSE [at |-> i, pos |-> pos, n |-> 0],
            !.steps = screens.steps - 1]
    /\ UNCHANGED <<ovars, calc>>

\* The pointer moves with the button held in window i.
ScreenMove(i, pos) ==
    /\ ScreenStep
    /\ screens.held = i
    /\ pos # screens.clicks.pos
    /\ screens' =
         [screens EXCEPT
            !.win[i] = ScreenMouseMove(screens.win[i], pos),
            !.clicks = [at |-> 0, pos |-> pos, n |-> 0],
            !.steps = screens.steps - 1]
    /\ UNCHANGED <<ovars, calc>>

\* The windows once the button is released in window i: handleMouseUp,
\* and with the second release in place handleDoubleClick in the same
\* turn of the event loop.
ScreenReleased(sc, i, up, twice) ==
    [sc EXCEPT
       !.win[i] = IF twice THEN ScreenDoubleClick(up) ELSE up,
       !.left = IF twice /\ ScreenConfirms(up) /\ up.hasCanvas
                THEN i ELSE 0,
       !.held = 0,
       !.clicks = IF sc.clicks.at = i /\ ~twice
                  THEN [sc.clicks EXCEPT !.n = 1]
                  ELSE [at |-> 0, pos |-> sc.clicks.pos, n |-> 0],
       !.steps = sc.steps - 1]

ScreenUp(i) ==
    /\ ScreenStep
    /\ screens.held = i
    /\ screens' = ScreenReleased(screens, i, ScreenMouseUp(screens.win[i]),
                                 screens.clicks.at = i /\ screens.clicks.n = 1)
    /\ UNCHANGED <<ovars, calc>>

\* The k-th notification in flight reaches its window.
Deliver(k) ==
    /\ ScreenStep
    /\ k \in 1..Len(screens.notes)
    /\ screens' =
         [screens EXCEPT
            !.win[screens.notes[k].to] =
                Listened(screens.win[screens.notes[k].to], screens.notes[k]),
            !.notes = [j \in 1..(Len(screens.notes) - 1) |->
                         IF j < k THEN screens.notes[j]
                         ELSE screens.notes[j + 1]],
            !.steps = screens.steps - 1]
    /\ UNCHANGED <<ovars, calc>>

NextScreens ==
    \/ \E i \in ScreenIds, pos \in ScreenPts : ScreenDown(i, pos)
    \/ \E i \in ScreenIds, pos \in ScreenPts : ScreenMove(i, pos)
    \/ \E i \in ScreenIds : ScreenUp(i)
    \/ \E k \in 1..MaxNotes : Deliver(k)

SpecScreens == InitScreens /\ [][NextScreens]_vars

Holders == {i \in DOMAIN screens.win : screens.win[i].selection.some}

\* C23: with distinct screen ids, once every `selection-started`
\* notification has been delivered at most one window holds a selection.
C23_AsStated == (screens.notes = <<>>) => Cardinality(Holders) <= 1

\* ------------------------------------------------ a press on an object

\* A press on the surface that lands on an object.
TargetPress == ~pointerDown /\ pointerDown' /\ gesture'.target # 0

\* C31: a press whose target is an object (a shape or a control point)
\* starts no drawing gesture whichever tool is active: isDrawing is false
\* before and after, the start point and the pen's points are what they
\* were, and the object stays selected, handleMouseDown discarding nothing.
C31_TargetPressStartsNoDrawing ==
    [][TargetPress =>
         /\ ~isDrawing /\ ~isDrawing'
         /\ drawStartPoint' = drawStartPoint /\ penPoints' = penPoints
         /\ activeObject' = gesture'.target]_vars

\* A control point pressed while a tool is active: it is the active object
\* and nothing is being drawn.
C31_Witness ==
    /\ pointerDown /\ gesture.target # 0 /\ activeTool # NoTool
    /\ activeObject = gesture.target /\ ~isDrawing
    /\ heap[gesture.target].isControlPoint

\* ------------------------------------------------ the look of an arrow

\* Six times the scale buildArrowPathData gives the shaft and the head for
\* the width `w`: Math.max(0.5, w / 3).
ScaleSixths(w) == Max(3, 2 * w)

\* The arrows on the surface.
Arrows ==
    { id \in SeqSet(objects) :
        ~heap[id].isControlPoint /\ heap[id].shapeData.type = "arrow" }

\* C32 (as stated): every arrow on the surface is filled with its stroke
\* colour, and its polygon has the thickness scale max(0.5, w / 3) of the
\* stroke width w it was drawn or last restyled with.
C32_AsStated ==
    \A id \in Arrows :
        /\ heap[id].style.fill = heap[id].style.stroke
        /\ ScaleSixths(heap[id].style.pathWidth)
              = ScaleSixths(heap[id].widthAsked)

\* ------------------------------------------------ the dashed outline

\* The committed shapes on the surface that are no texts.
Outlines ==
    { id \in SeqSet(objects) :
        /\ ~heap[id].isControlPoint /\ ~IsText(heap[id])
        /\ heap[id].evented }

\* C33 (as stated): a shape that is no text shows the dashed outline exactly
\* when it is the selected shape; after an undo or a redo has restored a
\* snapshot, and after a deselection, no unselected shape is dashed.
C33_AsStated ==
    hasCanvas => \A id \in Outlines : heap[id].dashed <=> (id = SelectedShape)

\* ------------------------------------------------ one corner-handle drag

\* The corner diagonally opposite to handle `pid`.
OppositeOf(pid) ==
    CASE pid = "tl" -> "br" [] pid = "tr" -> "bl"
      [] pid = "bl" -> "tr" [] OTHER -> "tl"

\* The place of object `id` among the persistent objects, bottom to top.
PlaceOf(id) ==
    Cardinality({k \in 1..Len(objects) :
                   /\ ~heap[objects[k]].isControlPoint
                   /\ \E m \in 1..Len(objects) : objects[m] = id /\ k <= m})

\* A corner handle of a rect or an ellipse is held, in a gesture during
\* which nothing replaced the objects of the surface.
CornerHeld ==
    /\ pointerDown /\ hasCanvas /\ gesture.clean /\ gesture.target # 0
    /\ OnCanvas(St, gesture.target)
    /\ heap[gesture.target].isControlPoint
    /\ gesture.target \in SeqSet(controlPoints.points)
    /\ OnCanvas(St, controlPoints.shape)
    /\ heap[controlPoints.shape].shapeData.type \in {"rect", "ellipse"}
    /\ Len(gesture.base) = Len(Persistent)

\* C34 (as stated): throughout one corner-handle drag of a rect or an
\* ellipse, wherever the handle is dragged, the corner diagonally opposite
\* to the handle when the gesture started remains a corner of the shape.
C34_AsStated ==
    CornerHeld =>
        LET was == gesture.base[PlaceOf(controlPoints.shape)]
            now == heap[controlPoints.shape].shapeData
        IN NamedCorner(was, OppositeOf(heap[gesture.target].pointId))
             \in { NamedCorner(now, pid) : pid \in {"tl", "tr", "bl", "br"} }

\* ------------------------------------------------ the toolbar's display

\* No gesture on the selection (select, move, resize) is in progress.
SelectionAtRest ==
    ~pointerDown /\ ~isSelecting /\ ~isDragging /\ ~isResizing

\* C35 (as stated): whenever a selection exists and no gesture on it is in
\* progress, the toolbar is displayed: the selection a completed gesture
\* leaves in place is more than 10 wide and more than 10 high.
C35_AsStated ==
    (isReady /\ selection.some /\ SelectionAtRest) =>
        (ToolbarShown /\ ~isDragging)


(***************************************************************************)
(* The capture window from onMounted on: the capture data comes with the   *)
(* screenshot-captured event, with the answer to get_capture_data, or with *)
(* both; each delivery that holds this window's screen starts a            *)
(* processCaptures, which waits for the bitmap before it resets the        *)
(* selection and shows the window.  The awaits on nextTick resume within   *)
(* the task that started them; the bitmap's load is the one wait during    *)
(* which other events are handled.                                         *)
(***************************************************************************)

MaxMountSteps == 5
\* screenshot-captured events the host sends while the window is open.
MaxCaptureEvents == 1

\* What the callback of renderBackground's captures.map resolves to when
\* loadImage has settled: the image, or null from its catch (not the
\* program's: a callback that lets the rejection through).
LoadOutcome_Rethrown(ok) == IF ok THEN "image" ELSE "rejected"

\* The same, as the program has it.
LoadOutcome(ok) == IF ok THEN "image" ELSE "null"

\* onMounted has registered its listeners and called get_capture_data.
InitMount ==
    /\ Surface(InitSt)
    /\ inits = 0
    /\ selection = NoSelection /\ isSelecting = FALSE /\ isResizing = FALSE
    /\ resizeHandle = NoHandle /\ startPos = <<0, 0>>
    /\ dragStartPos = <<0, 0>> /\ dragStartSelection = NoSelection
    /\ pointerDown = FALSE /\ nMoves = 0 /\ nSelections = 0
    /\ stepsLeft = MaxMountSteps
    /\ gesture = NoGesture /\ lastOp = "other" /\ cutOff = 0
    /\ probe = NoProbe /\ calc = NoCalc
    /\ isDragging = FALSE /\ mask = NoSelection
    /\ isReady = FALSE /\ confirms = <<>>
    /\ screens = NoScreens /\ clicks = NoClicks /\ clip = NoClip
    /\ mount = [fetch |-> "pending", events |-> 0, runs |-> 0,
                drawn |-> FALSE]

\* processCaptures(allCaptures) up to the wait for the bitmap: without this
\* window's screen in the data nothing happens; with it, captures is set
\* and renderBackground sizes the background canvas, which clears it.
Processing(m, has) ==
    IF has THEN [m EXCEPT !.runs = m.runs + 1, !.drawn = FALSE] ELSE m

\* What a delivery leaves alone.
Delivery ==
    UNCHANGED <<fvars, wvars, svars, inits, pointerDown, nMoves, nSelections,
                stepsLeft, clicks, gesture, lastOp, cutOff, probe, calc,
                screens, clip>>

\* The screenshot-captured event reaches its listener.
CaptureEvent(has) ==
    /\ mount.events < MaxCaptureEvents
    /\ mount' = Processing([mount EXCEPT !.events = mount.events + 1], has)
    /\ Delivery

\* invoke("get_capture_data") settles: with data, or rejected (the catch of
\* onMounted logs it).
FetchSettled(ok, has) ==
    /\ mount.fetch = "pending"
    /\ mount' = Processing([mount EXCEPT !.fetch = "settled"], ok /\ has)
    /\ Delivery

\* The bitmap of one processCaptures has loaded or failed to load. Unless
\* the failure is let through, renderBackground draws what has loaded and
\* the mask, and processCaptures goes on: resetSelection(), isReady = true.
ImageSettled(ok) ==
    /\ mount.runs > 0
    /\ mount' = [mount EXCEPT !.runs = mount.runs - 1,
                              !.drawn = mount.drawn
                                        \/ LoadOutcome(ok) = "image"]
    /\ IF LoadOutcome(ok) = "rejected"
       THEN UNCHANGED <<fvars, wvars, svars, gesture, lastOp, probe>>
       ELSE /\ Commit(resetSurface(St))
            /\ selection' = NoSelection
            /\ isSelecting' = FALSE /\ isDragging' = FALSE
            /\ isResizing' = FALSE
            /\ mask' = RenderMask(NoSelection)
            /\ isReady' = TRUE
            /\ gesture' = [gesture EXCEPT !.clean = FALSE]
            /\ lastOp' = "ready" /\ probe' = NoProbe
            /\ UNCHANGED <<confirms, resizeHandle, startPos, dragStartPos,
                           dragStartSelection>>
    /\ UNCHANGED <<inits, pointerDown, nMoves, nSelections, stepsLeft, calc,
                   screens, clip>>
    /\ cutOff' = Discards
    /\ clicks' = Unclicked

NextMount ==
    \/ \E has \in BOOLEAN : CaptureEvent(has)
    \/ \E ok \in BOOLEAN, has \in BOOLEAN : FetchSettled(ok, has)
    \/ \E ok \in BOOLEAN : ImageSettled(ok)
    \/ \E c \in PressPts : WinMouseDown(c)
    \/ \E c \in ClientPts : WinMouseMove(c)
    \/ MouseUp
    \/ InitDone

SpecMount == InitMount /\ [][NextMount]_vars

\* A load of an image settles: onload or onerror comes.
SpecMountFair ==
    SpecMount /\ WF_vars(\E ok \in BOOLEAN : ImageSettled(ok))

\* A processCaptures ends while the window is shown.
LateCompletion == isReady /\ mount'.runs < mount.runs

\* C36 (as stated): once the window is ready, the processing of capture
\* data never clears a selection the user has begun or made: the data of
\* the event and the data fetched at mount do not both run to completion
\* so that the second resets a selection made after the first finished.
C36_AsStated ==
    [][(LateCompletion /\ (selection.some \/ isSelecting))
         => (selection' = selection /\ isSelecting' = isSelecting)]_vars

\* Capture data holding this window's screen has been delivered and its
\* processCaptures waits for the bitmap.
Delivered == mount.runs > 0

\* C38: after capture data that holds this window's screen has been
\* delivered, the window eventually is ready (isReady = true) and has no
\* selection, whether the background bitmap loads or fails to load.
C38_DeliveredCaptureMakesReady ==
    Delivered ~> (isReady /\ ~selection.some)

\* C38 witness: the window has become ready although no bitmap could be
\* drawn on the background canvas.
C38_Witness ==
    /\ isReady /\ ~selection.some /\ lastOp = "ready"
    /\ mount.runs = 0 /\ ~mount.drawn

\* ------------------------------------------------ drawings pin the selection

\* The surface holds at least one object.
HoldsObjects == hasCanvas /\ objects # <<>>

\* A press, a move or a release of the pointer.
PointerStep == pointerDown' # pointerDown \/ nMoves' # nMoves

\* C37: while the surface holds at least one object, no pointer gesture
\* changes the selection rectangle and no resize starts; while there is a
\* selection no press starts a new selection drag; and the surface is never
\* created anew for a changed selection while it holds an object.
C37_DrawingsPinTheSelection ==
    [][/\ (HoldsObjects /\ PointerStep)
            => (selection' = selection /\ (isResizing' => isResizing))
       /\ (selection.some /\ ~pointerDown /\ pointerDown')
            => (~isSelecting' /\ nSelections' = nSelections)
       /\ (HoldsObjects /\ inits' > inits) => ~PointerStep]_vars

\* C37 witness: a handle of the selection is pressed while a shape is on
\* the surface, and nothing is being resized.
C37_Witness ==
    /\ pointerDown /\ gesture.kind = "window" /\ selection.some
    /\ Len(Persistent) > 0 /\ ~isResizing /\ ~isSelecting
    /\ \A c \in PressPts :
          getResizeHandle(selection, ToCanvasCoords(c)) # NoHandle


(***************************************************************************)
(* The clipboard list window: the list it shows is the answer to the last  *)
(* get_history, the host keeps the history itself and changes it when      *)
(* something is copied, and every command the window sends is handled by   *)
(* the host some time after it was sent and answered some time after that. *)
(***************************************************************************)

MaxClipSteps == 6
\* Commands of the window that are on their way at one time.
MaxCalls == 2

\* The items there are: what each holds, by the number the model knows it
\* by; 0 stands for undefined.
ItemIds == 1..4
KindOf(i) == IF i = 3 THEN "image" ELSE "text"
ContentOf(i) ==
    CASE i = 1 -> <<"a">> [] i = 2 -> <<"A", "b">> [] i = 3 -> <<"a">>
      [] OTHER -> <<"b">>

\* What the user types into the search box.
Queries == { <<>>, <<"a">>, <<"B">> }

\* The value arithmetic gives when it has no number to give.
NaN == -1000

\* String.prototype.toLowerCase over the letters in use.
ToLowerCase(str) ==
    [k \in 1..Len(str) |->
        CASE str[k] = "A" -> "a" [] str[k] = "B" -> "b" [] OTHER -> str[k]]

\* String.prototype.includes
Includes(str, q) ==
    \E k \in 1..(Len(str) - Len(q) + 1) : SubSeq(str, k, k + Len(q) - 1) = q

\* a % n of JavaScript: NaN for n = 0, the sign of a otherwise.
JsMod(a, n) ==
    IF a = NaN \/ n = NaN \/ n = 0 THEN NaN
    ELSE IF a >= 0 THEN a % n ELSE -((-a) % n)

\* a + b of JavaScript over the numbers in use.
JsAdd(a, b) == IF a = NaN \/ b = NaN THEN NaN ELSE a + b

\* list[index]: 0 (undefined) outside the list.
ItemAt(list, index) ==
    IF index >= 0 /\ index < Len(list) THEN list[index + 1] ELSE 0

\* Array.prototype.indexOf
IndexOf(list, item) ==
    IF \E k \in 1..Len(list) : list[k] = item
    THEN (CHOOSE k \in 1..Len(list) :
            list[k] = item /\ \A j \in 1..(k - 1) : list[j] # item) - 1
    ELSE -1

\* filteredHistory
filteredHistory(b) ==
    IF b.searchQuery = <<>> THEN b.history
    ELSE SelectSeq(b.history,
                   LAMBDA item :
                     /\ KindOf(item) = "text"
                     /\ Includes(ToLowerCase(ContentOf(item)),
                                 ToLowerCase(b.searchQuery)))

\* invoke(op, ...): the command is on its way. `item` is what the user
\* meant, `andThen` what the caller does after the answer.
Invoked(b, op, arg, item, andThen) ==
    [b EXCEPT !.calls = Append(b.calls,
                               [op |-> op, arg |-> arg, item |-> item,
                                stage |-> "sent", data |-> <<>>,
                                andThen |-> andThen])]

\* loadHistory() up to its await.
loadHistory(b, andThen) == Invoked(b, "get_history", 0, 0, andThen)

\* pasteItem(item) up to invoke("set_clipboard_item"): reading the content
\* of an undefined item throws, and the catch logs it.
pasteItem(b, item) ==
    IF item = 0 THEN b
    ELSE Invoked(b, "set_clipboard_item", item, item, "none")

\* deleteItem(index) up to its await.
deleteItem(b, index) ==
    IF IndexOf(b.history, ItemAt(filteredHistory(b), index)) = -1 THEN b
    ELSE Invoked(b, "delete_item",
                 IndexOf(b.history, ItemAt(filteredHistory(b), index)),
                 ItemAt(filteredHistory(b), index), "none")

\* handleKeydown(e)
handleKeydown(b, key) ==
    CASE key = "ArrowDown" ->
           [b EXCEPT !.selectedIndex =
              JsMod(JsAdd(b.selectedIndex, 1), Len(filteredHistory(b)))]
      [] key = "ArrowUp" ->
           [b EXCEPT !.selectedIndex =
              JsMod(JsAdd(JsAdd(b.selectedIndex, -1),
                          Len(filteredHistory(b))),
                    Len(filteredHistory(b)))]
      [] key = "Enter" ->
           IF Len(filteredHistory(b)) > 0
           THEN pasteItem(b, ItemAt(filteredHistory(b), b.selectedIndex))
           ELSE b
      [] key = "Escape" -> [b EXCEPT !.searchQuery = <<>>]
      [] key = "Meta+1" ->
           IF 0 < Len(filteredHistory(b))
           THEN pasteItem(b, ItemAt(filteredHistory(b), 0))
           ELSE b
      [] OTHER -> b

\* The keys the window is given.
Keys == {"ArrowDown", "ArrowUp", "Enter", "Escape", "Meta+1"}

\* The host handles a command: get_history answers with its list,
\* delete_item removes the item at the index it is given (and fails when
\* there is none), clear_history empties the list, set_clipboard_item puts
\* the item on the clipboard, which may move it to the front of the list.
HostHandled(b, k, moves) ==
    LET call == b.calls[k]
        there == call.arg >= 0 /\ call.arg < Len(b.backend)
        done == [call EXCEPT !.stage = "answered"]
    IN CASE call.op = "get_history" ->
              [b EXCEPT !.calls[k] = [done EXCEPT !.data = b.backend]]
         [] call.op = "delete_item" ->
              IF there
              THEN [b EXCEPT !.calls[k] = done,
                             !.backend = RemoveAt(b.backend, call.arg + 1),
                             !.lastDelete =
                                [asked |-> call.item,
                                 removed |-> b.backend[call.arg + 1]]]
              ELSE [b EXCEPT !.calls[k] = [call EXCEPT !.stage = "rejected"],
                             !.lastDelete =
                                [asked |-> call.item, removed |-> 0]]
         [] call.op = "clear_history" ->
              [b EXCEPT !.calls[k] = done, !.backend = <<>>]
         [] OTHER ->
              [b EXCEPT !.calls[k] = done,
                        !.backend =
                           IF moves
                           THEN <<call.item>>
                                  \o SelectSeq(b.backend,
                                               LAMBDA j : j # call.item)
                           ELSE b.backend]

\* The answer reaches the window and the caller goes on after its await:
\* loadHistory takes the list and selects its first item (its catch keeps
\* a failure to itself), pasteItem then empties the search box;
\* deleteItem, clearHistory and pasteItem load the history after a
\* success and log a failure.
Answered(b, k) ==
    LET call == b.calls[k]
        rest == [b EXCEPT !.calls = RemoveAt(b.calls, k)]
    IN IF call.op = "get_history"
       THEN [rest EXCEPT
               !.history = IF call.stage = "answered" THEN call.data
                           ELSE b.history,
               !.selectedIndex = IF call.stage = "answered" THEN 0
                                 ELSE b.selectedIndex,
               !.searchQuery = IF call.andThen = "clearSearch" THEN <<>>
                               ELSE b.searchQuery]
       ELSE IF call.stage = "rejected" THEN rest
       ELSE loadHistory(rest, IF call.op = "set_clipboard_item"
                              THEN "clearSearch" ELSE "none")

\* The list window after onMounted: it shows the host's history.
StartLists == { <<>>, <<1, 2, 3>>, <<2, 1>> }

InitClip ==
    /\ Surface(InitSt)
    /\ inits = 0
    /\ selection = NoSelection /\ isSelecting = FALSE /\ isResizing = FALSE
    /\ resizeHandle = NoHandle /\ startPos = <<0, 0>>
    /\ dragStartPos = <<0, 0>> /\ dragStartSelection = NoSelection
    /\ pointerDown = FALSE /\ nMoves = 0 /\ nSelections = 0
    /\ stepsLeft = 0
    /\ gesture = NoGesture /\ lastOp = "other" /\ cutOff = 0
    /\ probe = NoProbe /\ calc = NoCalc
    /\ isDragging = FALSE /\ mask = NoSelection
    /\ isReady = TRUE /\ confirms = <<>>
    /\ screens = NoScreens /\ clicks = NoClicks /\ mount = Mounted
    /\ \E list \in StartLists :
          clip = [NoClip EXCEPT !.backend = list, !.history = list,
                                !.steps = MaxClipSteps]

\* One input or one completion in the list window; the capture window is
\* left alone.
ClipStep(b) ==
    /\ clip.steps > 0
    /\ Len(b.calls) <= MaxCalls
    /\ clip' = [b EXCEPT !.steps = clip.steps - 1]
    /\ UNCHANGED <<fvars, wvars, svars, inits, pointerDown, nMoves,
                   nSelections, stepsLeft, clicks, gesture, lastOp, cutOff,
                   probe, calc, screens, mount>>

\* Something is copied: the host puts it in front of its history and
\* emits clipboard-update.
Copied(item) ==
    /\ item \notin SeqSet(clip.backend)
    /\ ClipStep([clip EXCEPT !.backend = <<item>> \o clip.backend,
                             !.events = clip.events + 1])

\* clipboard-update reaches the listener of onMounted.
ClipboardUpdate ==
    /\ clip.events > 0
    /\ ClipStep(loadHistory([clip EXCEPT !.events = clip.events - 1],
                            "none"))

\* keydown on the window
KeyDown(key) ==
    /\ key \in Keys
    /\ ClipStep(handleKeydown(clip, key))

\* v-model of the search box
SearchInput(q) ==
    /\ q # clip.searchQuery
    /\ ClipStep([clip EXCEPT !.searchQuery = q])

\* @mouseenter of a row
MouseEnter(index) ==
    /\ index < Len(filteredHistory(clip))
    /\ index # clip.selectedIndex
    /\ ClipStep([clip EXCEPT !.selectedIndex = index])

\* @click of a row's delete button
DeleteClick(index) ==
    /\ index < Len(filteredHistory(clip))
    /\ ClipStep(deleteItem(clip, index))

\* @click of the clear button: clearHistory() up to its await.
ClearClick ==
    /\ clip.history # <<>>
    /\ ClipStep(Invoked(clip, "clear_history", 0, 0, "none"))

HostHandles(k, moves, ok) ==
    /\ k \in 1..Len(clip.calls)
    /\ clip.calls[k].stage = "sent"
    /\ moves => clip.calls[k].op = "set_clipboard_item"
    /\ ~ok => ~moves
    /\ ClipStep(IF ok THEN HostHandled(clip, k, moves)
                ELSE [clip EXCEPT !.calls[k].stage = "rejected"])

AnswerArrives(k) ==
    /\ k \in 1..Len(clip.calls)
    /\ clip.calls[k].stage # "sent"
    /\ ClipStep(Answered(clip, k))

NextClip ==
    \/ \E item \in ItemIds : Copied(item)
    \/ ClipboardUpdate
    \/ \E key \in Keys : KeyDown(key)
    \/ \E q \in Queries : SearchInput(q)
    \/ \E index \in 0..3 : MouseEnter(index)
    \/ \E index \in 0..3 : DeleteClick(index)
    \/ ClearClick
    \/ \E k \in 1..(MaxCalls + 1), moves \in BOOLEAN, ok \in BOOLEAN :
          HostHandles(k, moves, ok)
    \/ \E k \in 1..(MaxCalls + 1) : AnswerArrives(k)

SpecClip == InitClip /\ [][NextClip]_vars

\* C39 (as stated): in the clipboard list, whenever the filtered list is
\* not empty selectedIndex is an integer from 0 to its length less one,
\* whatever arrow keys, search texts, deletions and reloads came before, so
\* that Enter pastes an item of the list; and on an empty list the arrow
\* keys leave selectedIndex an integer.
C39_AsStated ==
    /\ clip.selectedIndex # NaN
    /\ Len(filteredHistory(clip)) > 0
         => ItemAt(filteredHistory(clip), clip.selectedIndex) # 0

\* C40 (as stated): deleteItem removes exactly the item the user clicked,
\* however clipboard updates and reloads that change the host's list fall
\* between the click and the host's delete.
C40_AsStated == clip.lastDelete.removed = clip.lastDelete.asked

====
